---- MODULE Spec2Model ----
(***************************************************************************)
(* Price-condition monitoring and evaluation engine of the alert bot:     *)
(* the SQL store (alerts, calls, user_deposits, alert_triggers), the      *)
(* polling loop (PriceMonitor.Run / poll), the per-price handler of       *)
(* TelegramBot.startMonitoring (checkAlerts, checkSharpChange, stop-loss  *)
(* loop) and the chat commands that mutate the store.                     *)
(*                                                                         *)
(* Units.  float64 quantities are fixed-point integers:                   *)
(*   prices            0.1          (1000 is 100.0)                       *)
(*   percents          0.1 %        (5 is 0.5 %)                          *)
(*   call size         0.0005       (200000 is 100.0, 2 is 0.001)         *)
(*   pnl_percent       0.01 %       (floor)                               *)
(*   deposits          0.01         (10000 is 100.00, floor)              *)
(* Comparisons the code makes on quotients are made on cross products,    *)
(* which is exact over the reals.                                         *)
(*                                                                         *)
(* Threads.  0 is the goroutine of TelegramBot.Start, which handles the   *)
(* chat commands one after the other; 1..MaxLoops are the goroutines      *)
(* startMonitoring spawns for PriceMonitor.Run.  One action is one store  *)
(* statement, network call or mutex section together with the local       *)
(* computation that follows it.                                           *)
(***************************************************************************)
EXTENDS Integers, Sequences, FiniteSets, TLC

\* ---------------------------------------------------------------- bounds
MaxLoops  == 2      \* monitor goroutines alive at the same time
MaxPolls  == 3      \* poll passes of one loop
MaxCmds   == 2      \* chat commands handled
MaxAlerts == 2      \* alert ids handed out
MaxCalls  == 1      \* calls opened
MaxTime   == 15     \* minutes the clock runs
MaxReminders == 2   \* reminders /remind is asked for
Tick      == 5      \* minutes between two readings of the clock

Symbols == {1, 2}                   \* rank of the symbol in lexicographic order
Users   == {1, 2}                   \* private chats: chat id = user id
Loops   == 1..MaxLoops
Threads == 0..MaxLoops

PriceValues == {1000}               \* VALUE of /add TICKER price VALUE
PctValues   == {5, -5}              \* VALUE of /add TICKER pct VALUE
SLValues    == {0, 995}             \* sl PRICE of /ocall and /sl
DepValues   == {0, 50}              \* deposit_percent of /ocall
Directions  == {"long", "short"}

\* ------------------------------------------------------- program constants
ToleranceNum == 5                   \* alert.TargetPrice * 0.005
ToleranceDen == 1000
ThresholdPercent == 0               \* NewPriceMonitorWithProvider(b.st, ..., 0, 60)
SharpChangePercent == 2             \* config default 0.2 %
SharpChangeIntervalMin == 15
SharpCooldownMin == 5
SizeUnit == 2000                    \* size units per 1.0
FullSize == 100 * SizeUnit          \* call.Size = 100.0
MinSize == 2                        \* newSize < 0.001
InitialDeposit == 10000             \* VALUES (?, 100, 100)

Abs(x) == IF x < 0 THEN -x ELSE x
Min(S) == CHOOSE x \in S : \A y \in S : x <= y
Max(S) == CHOOSE x \in S : \A y \in S : x >= y

RECURSIVE SortedSeq(_, _)
\* the elements of S as a sequence, ascending (asc) or descending
SortedSeq(S, asc) ==
    IF S = {} THEN <<>>
    ELSE LET x == IF asc THEN Min(S) ELSE Max(S)
         IN <<x>> \o SortedSeq(S \ {x}, asc)

EmptyFn == <<>>

VARIABLES
    alerts,                 \* table alerts: id -> row
    nextAlert,              \* ids handed out so far (generateShortID never repeats here)
    calls,                  \* table calls: id -> row
    deposits,               \* table user_deposits: user -> row
    triggers,               \* table alert_triggers: alert id -> rows logged
    sharpLog,               \* alert_triggers rows of kind sharp_change: symbol -> chat -> rows
    notified,               \* alert notifications delivered: alert id -> count
    slNotified,             \* stop-loss notifications delivered: call id -> count
    sharpSent,              \* sharp-change notifications delivered: symbol -> chat -> count
    lastSharpChangeAlert,   \* b.lastSharpChangeAlert: symbol -> [Time, Price]
    now,                    \* wall clock, minutes
    stopMon,                \* loop b.stopMon cancels, 0 when nil
    pc,                     \* position of every thread
    ctxDone,                \* monCtx of the loop is cancelled
    lastPriceBy,            \* PriceMonitor.lastPriceBy of the loop
    todo,                   \* symbols of the pass not yet fetched
    cur,                    \* last fetch of the loop: symbol, price, cached previous
                            \* price, outcome, stages of the handler run
    alertsL,                \* checkAlerts: alerts not yet evaluated
    ev,                     \* checkAlerts: last evaluation
    callsL,                 \* handler: symbolCalls not yet evaluated
    slEv,                   \* handler: last stop-loss evaluation
    sc,                     \* checkSharpChange locals
    cc,                     \* CloseCall locals of every thread
    polls,                  \* poll passes the loop has started
    cmds,                   \* commands handled
    gw,                     \* a call of the price gateway: inputs and result
    depCall,                \* a call of the deposit store: operation, user and result
    rush,                   \* cmdRush locals: openCalls not yet handled and the counters
    stCall,                 \* a call of the alert or call store: operation, inputs and result
    reminders,              \* table reminders: id -> trigger time
    tasks,                  \* Scheduler.tasks of the running process: id -> time of its timer
    timers,                 \* the timers time.AfterFunc made in the running process and
                            \* the position of the fire each has started
    delivered,              \* reminder messages sent: id -> count, for every id Add accepted
    sched                   \* the process (down or running) and Scheduler.Start in it:
                            \* position and the tasks loaded but not yet scheduled

storeVars == <<alerts, nextAlert, calls, deposits, triggers, sharpLog>>
outVars   == <<notified, slNotified, sharpSent>>
loopVars  == <<ctxDone, lastPriceBy, todo, cur, alertsL, ev, callsL, slEv, sc>>
vars == <<alerts, nextAlert, calls, deposits, triggers, sharpLog, notified,
          slNotified, sharpSent, lastSharpChangeAlert, now, stopMon,
          pc, ctxDone, lastPriceBy, todo, cur, alertsL, ev, callsL, slEv, sc,
          cc, polls, cmds, gw, depCall, rush, stCall, reminders, tasks, timers,
          delivered, sched>>
extVars == <<rush, stCall, reminders, tasks, timers, delivered, sched>>

\* ------------------------------------------------------------------ rows
NoAlert == [id |-> 0, chat |-> 0, sym |-> 0, tprice |-> 0, tpct |-> 0, base |-> 0]
NoCall  == [id |-> 0, user |-> 0, sym |-> 0, dir |-> "long", entry |-> 0,
            size |-> 0, dep |-> 0, sl |-> 0, status |-> "none", exit |-> 0,
            pnl |-> 0, closedAt |-> FALSE]
NoCur   == [sym |-> 0, price |-> 0, prev |-> 0, st |-> "none", ran |-> {}]
NoEv    == [a |-> NoAlert, price |-> 0, kind |-> "none"]
NoSlEv  == [c |-> NoCall, price |-> 0, hit |-> FALSE]
NoSc    == [old |-> 0, hist |-> 0, err |-> FALSE, chats |-> {}]
NoRes   == [err |-> FALSE, src |-> 0, price |-> 0, exchange |-> "", market |-> "",
            tried |-> <<>>]
NoGw    == [fn |-> "none", exchange |-> "", market |-> "", ok |-> <<>>, res |-> NoRes]
NoDepCall == [fn |-> "none", user |-> 0, initial |-> 0, current |-> 0, err |-> FALSE]
NoRush  == [on |-> FALSE, user |-> 0, openCalls |-> <<>>, successCount |-> 0,
            failCount |-> 0, failMessages |-> <<>>]
NoSched == [st |-> "start", loaded |-> <<>>]
NoStCall == [fn |-> "none", id |-> 0, user |-> 0, arg |-> 0, ok |-> FALSE, err |-> FALSE]
NoCC    == [id |-> 0, user |-> 0, exit |-> 0, size |-> 0, z |-> 0, dir |-> "long",
            entry |-> 0, dep |-> 0, pnl |-> 0, current |-> 0, newDep |-> 0,
            ret |-> "none"]

\* ------------------------------------------------------- store, read side
\* SELECT ... FROM alerts WHERE symbol = ?  (rowid order)
GetBySymbol(al, s) ==
    LET ids == SortedSeq({i \in DOMAIN al : al[i].sym = s}, TRUE)
    IN [k \in 1..Len(ids) |-> al[ids[k]]]

\* SELECT ... FROM calls WHERE status = 'open' ORDER BY opened_at DESC
GetAllOpenCalls(cl) ==
    LET ids == SortedSeq({i \in DOMAIN cl : cl[i].status = "open"}, FALSE)
    IN [k \in 1..Len(ids) |-> cl[ids[k]]]

\* the handler's filter: calls of GetAllOpenCalls with call.Symbol == symbol
SymbolCalls(cl, s) ==
    LET ids == SortedSeq({i \in DOMAIN cl : cl[i].status = "open" /\ cl[i].sym = s}, FALSE)
    IN [k \in 1..Len(ids) |-> cl[ids[k]]]

\* GetAllSymbols taking the calls of any status
GetAllSymbolsOfAllCalls(al, cl) ==
    SortedSeq({al[i].sym : i \in {j \in DOMAIN al : al[j].sym # 0}}
              \cup {cl[i].sym : i \in {j \in DOMAIN cl : cl[j].sym # 0}}, TRUE)

\* SELECT DISTINCT symbol FROM (SELECT symbol FROM alerts WHERE symbol != ''
\* UNION SELECT symbol FROM calls WHERE symbol != '' AND status = 'open')
\* ORDER BY symbol; the symbol 0 stands for the empty string
GetAllSymbols(al, cl) ==
    SortedSeq({al[i].sym : i \in {j \in DOMAIN al : al[j].sym # 0}}
              \cup {cl[i].sym : i \in {j \in DOMAIN cl : cl[j].sym # 0
                                                          /\ cl[j].status = "open"}}, TRUE)

\* ------------------------------------------------------------ conditions
\* PriceHit with the band edges excluded
PriceHitOpenBand(a, p) ==
    a.tprice > 0 /\ Abs(p - a.tprice) * ToleranceDen < a.tprice * ToleranceNum

\* checkAlerts: math.Abs(currentPrice-alert.TargetPrice) <= alert.TargetPrice * 0.005
PriceHit(a, p) ==
    a.tprice > 0 /\ Abs(p - a.tprice) * ToleranceDen <= a.tprice * ToleranceNum

\* PercentHit comparing magnitudes, the direction of the move ignored
PercentHitAnyDirection(a, p) ==
    /\ a.tpct # 0
    /\ a.base > 0
    /\ Abs(p - a.base) * 1000 >= Abs(a.tpct) * a.base

\* checkAlerts: changePct := (currentPrice - BasePrice) / BasePrice * 100, directional
PercentHit(a, p) ==
    /\ a.tpct # 0
    /\ a.base > 0
    /\ \/ a.tpct > 0 /\ (p - a.base) * 1000 >= a.tpct * a.base
       \/ a.tpct < 0 /\ (p - a.base) * 1000 <= a.tpct * a.base

\* checkAlerts: which of the two checks set triggered, the price check first
TriggerKind(a, p) ==
    IF PriceHit(a, p) THEN "price"
    ELSE IF PercentHit(a, p) THEN "percent"
    ELSE "none"

\* handler: stop-loss condition of one call of the snapshot
StopLossHit(c, p) ==
    /\ c.sl > 0
    /\ \/ c.dir = "long" /\ p <= c.sl
       \/ c.dir = "short" /\ p >= c.sl

\* DeltaPasses of a monitor built with a threshold of 1 %
DeltaPassesOnePercent(prev, p) ==
    \/ (p - prev) * 100 >= 1 * prev
    \/ (p - prev) * 100 <= (0 - 1) * prev

\* DeltaPasses letting only a price that differs from the cached one through
DeltaPassesOnChange(prev, p) == p # prev

\* poll: deltaPct >= ThresholdPercent || deltaPct <= -ThresholdPercent
DeltaPasses(prev, p) ==
    \/ (p - prev) * 100 >= ThresholdPercent * prev
    \/ (p - prev) * 100 <= (0 - ThresholdPercent) * prev

\* checkSharpChange: math.Abs((currentPrice - oldPrice) / oldPrice * 100) >= SharpChangePercent
SharpHit(old, p) == Abs(p - old) * 1000 >= SharpChangePercent * old

\* the state after NewTelegramBot and the startMonitoring of Start, over a
\* database left by earlier runs with the alerts al and the calls cl: the first
\* loop is spawned when the registry is not empty
InitBot(al, cl) ==
    /\ alerts = al
    /\ nextAlert = Cardinality(DOMAIN al)
    /\ calls = cl
    /\ deposits = EmptyFn
    /\ triggers = [i \in 1..MaxAlerts |-> 0]
    /\ sharpLog = [s \in Symbols |-> [u \in Users |-> 0]]
    /\ notified = [i \in 1..MaxAlerts |-> 0]
    /\ slNotified = [i \in 1..MaxCalls |-> 0]
    /\ sharpSent = [s \in Symbols |-> [u \in Users |-> 0]]
    /\ lastSharpChangeAlert = EmptyFn
    /\ now = 0
    /\ stopMon = IF GetAllSymbols(al, cl) # <<>> THEN 1 ELSE 0
    /\ pc = [t \in Threads |-> IF t = 1 /\ GetAllSymbols(al, cl) # <<>> THEN "poll" ELSE "idle"]
    /\ ctxDone = [l \in Loops |-> FALSE]
    /\ lastPriceBy = [l \in Loops |-> EmptyFn]
    /\ todo = [l \in Loops |-> <<>>]
    /\ cur = [l \in Loops |-> NoCur]
    /\ alertsL = [l \in Loops |-> <<>>]
    /\ ev = [l \in Loops |-> NoEv]
    /\ callsL = [l \in Loops |-> <<>>]
    /\ slEv = [l \in Loops |-> NoSlEv]
    /\ sc = [l \in Loops |-> NoSc]
    /\ cc = [t \in Threads |-> NoCC]
    /\ polls = [l \in Loops |-> 0]
    /\ cmds = 0

\* InitBot with no call of the price gateway or the deposit store under observation
\* no /rush in progress, no store call under observation, no reminder, the
\* goroutine of Scheduler.Start not yet run
InitExt ==
    /\ rush = NoRush
    /\ stCall = NoStCall
    /\ reminders = EmptyFn
    /\ tasks = EmptyFn
    /\ timers = <<>>
    /\ delivered = EmptyFn
    /\ sched = NoSched

InitOver(al, cl) == InitBot(al, cl) /\ gw = NoGw /\ depCall = NoDepCall /\ InitExt


\* ---------------------------------------------------------- price gateway
\* the four sources in the order both lookups try them
Sources ==
    <<[exchange |-> "Bitget", market |-> "spot"],
      [exchange |-> "Bitget", market |-> "futures"],
      [exchange |-> "Bybit", market |-> "spot"],
      [exchange |-> "Bybit", market |-> "futures"]>>

\* FixedOrder starting with Bybit
BybitFirstOrder == <<3, 4, 1, 2>>

\* the order of the attempts 1. to 4., as indices of Sources
FixedOrder == <<1, 2, 3, 4>>

\* what source i answers when its request succeeds, in 0.1
SourcePrice(i) == 1000 + i

\* the chain `price, err = fetch(...); if err == nil { return }` over the
\* sources of order: ok[k] tells whether the k-th request succeeds; tried is
\* the list of the sources queried
TryInOrder(order, ok) ==
    LET hits == {k \in 1..Len(order) : ok[k]}
    IN IF hits = {}
       THEN [NoRes EXCEPT !.err = TRUE, !.tried = order]
       ELSE LET k == Min(hits)
                i == order[k]
            IN [err |-> FALSE, src |-> i, price |-> SourcePrice(i),
                exchange |-> Sources[i].exchange, market |-> Sources[i].market,
                tried |-> SubSeq(order, 1, k)]

\* FetchPriceInfo, the current price and its source; the four changes over
\* 15m, 1h, 4h, 24h, computed afterwards with errors ignored, are left out
FetchPriceInfo(ok) == TryInOrder(FixedOrder, ok)

\* FetchHistoricalPrice going straight to the fixed order
FetchHistoricalPriceUnpreferred(preferredExchange, preferredMarket, ok) ==
    TryInOrder(FixedOrder, ok)

\* FetchHistoricalPrice: the four `if preferredExchange == ... && preferredMarket
\* == ...` blocks, of which at most one matches, then the fixed order, in
\* which the preferred source is queried again
FetchHistoricalPrice(preferredExchange, preferredMarket, ok) ==
    LET preferred == {i \in 1..Len(Sources) :
                         /\ preferredExchange = Sources[i].exchange
                         /\ preferredMarket = Sources[i].market}
    IN TryInOrder(SortedSeq(preferred, TRUE) \o FixedOrder, ok)

\* a caller runs FetchPriceInfo over the request outcomes drawn for it
CallFetchPriceInfo ==
    /\ gw.fn = "none"
    /\ gw' = [gw EXCEPT !.fn = "info", !.res = FetchPriceInfo(gw.ok)]
    /\ UNCHANGED <<depCall, extVars, storeVars, outVars, lastSharpChangeAlert, now, stopMon, pc,
                   loopVars, cc, polls, cmds>>

\* a caller runs FetchHistoricalPrice over the preference and the request
\* outcomes drawn for it
CallFetchHistoricalPrice ==
    /\ gw.fn = "none"
    /\ gw' = [gw EXCEPT !.fn = "hist",
                        !.res = FetchHistoricalPrice(gw.exchange, gw.market, gw.ok)]
    /\ UNCHANGED <<depCall, extVars, storeVars, outVars, lastSharpChangeAlert, now, stopMon, pc,
                   loopVars, cc, polls, cmds>>

\* ------------------------------------------------------------ arithmetic
\* BasePnl computed as for a long call whatever the direction
BasePnlLongOnly(dir, entry, exit) == ((exit - entry) * 10000) \div entry

\* CloseCall: basePnlPercent, in 0.01 %
BasePnl(dir, entry, exit) ==
    IF dir = "long" THEN ((exit - entry) * 10000) \div entry
    ELSE ((entry - exit) * 10000) \div entry

\* CloseCall: closedPositionPercent := call.DepositPercent * (sizeToClose / call.Size), in 0.1 %
ClosedPositionPercent(dep, s, z) == (dep * s * 10) \div z

\* CloseCall: newDeposit := currentDeposit + (depositChangePercent / 100) * currentDeposit
NewDeposit(current, dep, s, z, pnl) ==
    current + ((((ClosedPositionPercent(dep, s, z) * pnl) \div 100) * current) \div 100000)

\* ------------------------------------------------------- frame shorthands
Put(f, k, v) == (k :> v) @@ f
Drop(f, k) == [x \in DOMAIN f \ {k} |-> f[x]]
\* where CloseCall returns to: /ccall or the loop of /rush on the command
\* goroutine, the stop-loss loop of the handler on a monitor
Return(t) == IF t = 0 THEN (IF rush.on THEN "rush_after" ELSE "ccall_after") ELSE "sl_after"
\* poll: the for loop moves on to the next symbol, or the pass ends and Run selects
AfterSymbol(rest) == IF rest = <<>> THEN "wait" ELSE "fetch"

\* ------------------------------------------------------- startMonitoring
FreeLoops == {l \in Loops : pc[l] \in {"idle", "stopped"}}

\* startMonitoring over the store contents al, cl: cancel the previous loop,
\* read the registry, spawn a goroutine running a new PriceMonitor
StartMonitoring(al, cl) ==
    LET cancelled == IF stopMon # 0 THEN [ctxDone EXCEPT ![stopMon] = TRUE] ELSE ctxDone
    IN IF GetAllSymbols(al, cl) # <<>>
       THEN /\ FreeLoops # {}
            /\ LET l == Min(FreeLoops)
               IN /\ ctxDone' = [cancelled EXCEPT ![l] = FALSE]
                  /\ pc' = [pc EXCEPT ![l] = "poll"]
                  /\ lastPriceBy' = [lastPriceBy EXCEPT ![l] = EmptyFn]
                  /\ cur' = [cur EXCEPT ![l] = NoCur]
                  /\ polls' = [polls EXCEPT ![l] = 0]
                  /\ stopMon' = l
       ELSE /\ ctxDone' = cancelled
            /\ UNCHANGED <<pc, lastPriceBy, cur, polls, stopMon>>

\* --------------------------------------------------------- chat commands
\* /add TICKER price|pct VALUE with FetchPriceInfo returning p; the branches
\* that only reply (usage, price or store error) change no state
CmdAddAlert(u, s, kind, v, p) ==
    /\ pc[0] = "idle"
    /\ cmds < MaxCmds
    /\ nextAlert < MaxAlerts
    /\ LET id == nextAlert + 1
           row == IF kind = "price"
                  THEN [id |-> id, chat |-> u, sym |-> s, tprice |-> v, tpct |-> 0, base |-> 0]
                  ELSE [id |-> id, chat |-> u, sym |-> s, tprice |-> 0, tpct |-> v, base |-> p]
       IN /\ alerts' = Put(alerts, id, row)
          /\ nextAlert' = id
          /\ StartMonitoring(alerts', calls)
    /\ cmds' = cmds + 1
    /\ UNCHANGED <<gw, depCall, extVars, calls, deposits, triggers, sharpLog, outVars, lastSharpChangeAlert,
                   now, todo, alertsL, ev, callsL, slEv, sc, cc>>

\* /del ID: DeleteByID(chatID, id) and, when a row was deleted, restartMonitoring
CmdDelAlert(u, id) ==
    /\ pc[0] = "idle"
    /\ cmds < MaxCmds
    /\ id \in DOMAIN alerts
    /\ alerts[id].chat = u
    /\ alerts' = Drop(alerts, id)
    /\ StartMonitoring(alerts', calls)
    /\ cmds' = cmds + 1
    /\ UNCHANGED <<gw, depCall, extVars, nextAlert, calls, deposits, triggers, sharpLog, outVars,
                   lastSharpChangeAlert, now, todo, alertsL, ev, callsL, slEv, sc, cc>>

\* OpenCall storing the size of the struct it is given
OpenCallKeepsSize(c, id) ==
    [c EXCEPT !.id = id, !.status = "open"]

\* DatabaseStorage.OpenCall: the row stored for the Call struct c
OpenCall(c, id) ==
    [c EXCEPT !.id = id, !.status = "open", !.size = FullSize]

\* /ocall TICKER [long|short] [deposit_percent] [sl PRICE] with FetchPriceInfo returning p
CmdOpenCall(u, s, dir, dep, sl, p) ==
    /\ pc[0] = "idle"
    /\ cmds < MaxCmds
    /\ Cardinality(DOMAIN calls) < MaxCalls
    /\ LET id == Cardinality(DOMAIN calls) + 1
           c == [NoCall EXCEPT !.user = u, !.sym = s, !.dir = dir, !.entry = p,
                               !.dep = dep, !.sl = sl, !.status = ""]
       IN calls' = Put(calls, id, OpenCall(c, id))
    /\ cmds' = cmds + 1
    /\ UNCHANGED <<gw, depCall, extVars, alerts, nextAlert, deposits, triggers, sharpLog, outVars,
                   lastSharpChangeAlert, now, stopMon, pc, loopVars, cc, polls>>

\* UpdateStopLoss with WHERE id = ? AND status = 'open', whoever the user is
UpdateStopLossAnyUser(cl, id, u, v) ==
    IF id \in DOMAIN cl /\ cl[id].status = "open"
    THEN [cl EXCEPT ![id].sl = v]
    ELSE cl

\* DatabaseStorage.UpdateStopLoss: UPDATE calls SET stop_loss_price WHERE id, user_id, status = 'open'
UpdateStopLoss(cl, id, u, v) ==
    IF id \in DOMAIN cl /\ cl[id].user = u /\ cl[id].status = "open"
    THEN [cl EXCEPT ![id].sl = v]
    ELSE cl

\* /sl CALLID [price]; v = -1 stands for the form without price (entry price)
CmdSetStopLoss(u, id, v) ==
    /\ pc[0] = "idle"
    /\ cmds < MaxCmds
    /\ id \in DOMAIN calls
    /\ calls[id].user = u
    /\ calls[id].status = "open"
    /\ calls' = UpdateStopLoss(calls, id, u, IF v = -1 THEN calls[id].entry ELSE v)
    /\ cmds' = cmds + 1
    /\ UNCHANGED <<gw, depCall, extVars, alerts, nextAlert, deposits, triggers, sharpLog, outVars,
                   lastSharpChangeAlert, now, stopMon, pc, loopVars, cc, polls>>

\* /ccall CALLID [size]: GetCallByID, the size check, FetchPriceInfo returning p,
\* then CloseCall; sz = 0 stands for the form without size (call.Size as read)
CmdCloseCall(u, id, sz, p) ==
    /\ pc[0] = "idle"
    /\ cmds < MaxCmds
    /\ id \in DOMAIN calls
    /\ calls[id].user = u
    /\ calls[id].status = "open"
    /\ sz <= calls[id].size
    /\ cc' = [cc EXCEPT ![0] = [NoCC EXCEPT !.id = id, !.user = u, !.exit = p,
                                  !.size = IF sz = 0 THEN calls[id].size ELSE sz]]
    /\ pc' = [pc EXCEPT ![0] = "cc_read"]
    /\ cmds' = cmds + 1
    /\ UNCHANGED <<gw, depCall, extVars, storeVars, outVars, lastSharpChangeAlert, now, stopMon, loopVars, polls>>

\* /ccall after CloseCall returned: GetCallByID and the reply
CmdCloseCallDone ==
    /\ pc[0] = "ccall_after"
    /\ pc' = [pc EXCEPT ![0] = "idle"]
    /\ cc' = [cc EXCEPT ![0] = NoCC]
    /\ UNCHANGED <<gw, depCall, extVars, storeVars, outVars, lastSharpChangeAlert, now, stopMon, loopVars,
                   polls, cmds>>

\* DatabaseStorage.GetUserCalls(userID, true): the open calls of the user,
\* ORDER BY opened_at DESC (ids grow with the opening time)
GetUserCalls(cl, u) ==
    SortedSeq({id \in DOMAIN cl : cl[id].user = u /\ cl[id].status = "open"}, FALSE)

\* /rush: GetUserCalls; with no open call the reply and nothing else
CmdRush(u) ==
    /\ pc[0] = "idle"
    /\ cmds < MaxCmds
    /\ LET openCalls == GetUserCalls(calls, u)
       IN IF openCalls = <<>>
          THEN UNCHANGED <<pc, rush>>
          ELSE /\ rush' = [NoRush EXCEPT !.on = TRUE, !.user = u, !.openCalls = openCalls]
               /\ pc' = [pc EXCEPT ![0] = "rush_fetch"]
    /\ cmds' = cmds + 1
    /\ UNCHANGED <<gw, depCall, stCall, reminders, tasks, timers, delivered, sched, storeVars, outVars,
                   lastSharpChangeAlert, now, stopMon, loopVars, cc, polls>>

\* /rush, the body of the loop up to CloseCall: FetchPriceInfo returning p (0:
\* an error, the call is counted as failed), then CloseCall(call.ID,
\* call.UserID, p, 100.0); failMessages keeps the kind of every failure
RushFetch(p) ==
    /\ pc[0] = "rush_fetch"
    /\ LET id == Head(rush.openCalls)
       IN IF p = 0
          THEN /\ rush' = [rush EXCEPT !.openCalls = Tail(@), !.failCount = @ + 1,
                                       !.failMessages = Append(@, "price")]
               /\ pc' = [pc EXCEPT ![0] = IF Tail(rush.openCalls) = <<>> THEN "rush_reply"
                                          ELSE "rush_fetch"]
               /\ UNCHANGED cc
          ELSE /\ cc' = [cc EXCEPT ![0] = [NoCC EXCEPT !.id = id, !.user = rush.user,
                                                        !.exit = p, !.size = FullSize]]
               /\ pc' = [pc EXCEPT ![0] = "cc_read"]
               /\ UNCHANGED rush
    /\ UNCHANGED <<gw, depCall, stCall, reminders, tasks, timers, delivered, sched, storeVars, outVars,
                   lastSharpChangeAlert, now, stopMon, loopVars, polls, cmds>>

\* /rush after CloseCall returned: the counters, then the next call
RushAfter ==
    /\ pc[0] = "rush_after"
    /\ rush' = [rush EXCEPT !.openCalls = Tail(@),
                            !.successCount = IF cc[0].ret = "ok" THEN @ + 1 ELSE @,
                            !.failCount = IF cc[0].ret = "ok" THEN @ ELSE @ + 1,
                            !.failMessages = IF cc[0].ret = "ok" THEN @
                                             ELSE Append(@, "close")]
    /\ pc' = [pc EXCEPT ![0] = IF Tail(rush.openCalls) = <<>> THEN "rush_reply"
                               ELSE "rush_fetch"]
    /\ cc' = [cc EXCEPT ![0] = NoCC]
    /\ UNCHANGED <<gw, depCall, stCall, reminders, tasks, timers, delivered, sched, storeVars, outVars,
                   lastSharpChangeAlert, now, stopMon, loopVars, polls, cmds>>

\* /rush: the reply with both counters; the counters stay until the next /rush
RushReply ==
    /\ pc[0] = "rush_reply"
    /\ rush' = [rush EXCEPT !.on = FALSE]
    /\ pc' = [pc EXCEPT ![0] = "idle"]
    /\ UNCHANGED <<gw, depCall, stCall, reminders, tasks, timers, delivered, sched, storeVars, outVars,
                   lastSharpChangeAlert, now, stopMon, loopVars, cc, polls, cmds>>

\* DatabaseStorage.migrate on an existing database: the CREATE ... IF NOT
\* EXISTS and ALTER TABLE statements change no row; the UPDATE in front of
\* them sets size = 100 on every call whose size is 0
migrate(cl) ==
    [id \in DOMAIN cl |-> IF cl[id].size = 0 THEN [cl[id] EXCEPT !.size = FullSize]
                          ELSE cl[id]]

\* the process ends at any point and is started again: NewDatabaseStorage runs
\* migrate over the database left behind, NewTelegramBot and Start build the
\* bot anew (no goroutine, cache or cooldown stamp survives); cmds counts the
\* restart like a command
Restart ==
    /\ cmds < MaxCmds
    /\ cmds' = cmds + 1
    /\ calls' = migrate(calls)
    /\ LET symbols == GetAllSymbols(alerts, migrate(calls))
       IN /\ stopMon' = IF symbols # <<>> THEN 1 ELSE 0
          /\ pc' = [t \in Threads |-> IF t = 1 /\ symbols # <<>> THEN "poll" ELSE "idle"]
    /\ lastSharpChangeAlert' = EmptyFn
    /\ ctxDone' = [l \in Loops |-> FALSE]
    /\ lastPriceBy' = [l \in Loops |-> EmptyFn]
    /\ todo' = [l \in Loops |-> <<>>]
    /\ cur' = [l \in Loops |-> NoCur]
    /\ alertsL' = [l \in Loops |-> <<>>]
    /\ ev' = [l \in Loops |-> NoEv]
    /\ callsL' = [l \in Loops |-> <<>>]
    /\ slEv' = [l \in Loops |-> NoSlEv]
    /\ sc' = [l \in Loops |-> NoSc]
    /\ cc' = [t \in Threads |-> NoCC]
    /\ rush' = NoRush
    /\ tasks' = EmptyFn
    /\ timers' = <<>>
    /\ sched' = NoSched
    /\ UNCHANGED <<gw, depCall, stCall, reminders, delivered, alerts, nextAlert, deposits,
                   triggers, sharpLog, outVars, now, polls>>

\* UpdateStopLoss: RowsAffected of its UPDATE
RowsAffected(cl, id, u) ==
    IF id \in DOMAIN cl /\ cl[id].user = u /\ cl[id].status = "open" THEN 1 ELSE 0

\* a caller runs UpdateStopLoss(id, u, v); err tells whether it returned an
\* error ("call not found or already closed" when no row was affected)
CallUpdateStopLoss(id, u, v) ==
    /\ pc[0] = "idle"
    /\ cmds < MaxCmds
    /\ calls' = UpdateStopLoss(calls, id, u, v)
    /\ stCall' = [NoStCall EXCEPT !.fn = "UpdateStopLoss", !.id = id, !.user = u, !.arg = v,
                                  !.err = (RowsAffected(calls, id, u) = 0)]
    /\ cmds' = cmds + 1
    /\ UNCHANGED <<gw, depCall, rush, reminders, tasks, timers, delivered, sched, alerts, nextAlert,
                   deposits, triggers, sharpLog, outVars, lastSharpChangeAlert, now, stopMon,
                   pc, loopVars, cc, polls>>

\* a caller runs CloseCall(id, u, p, sz) with any arguments
CallCloseCall(id, u, p, sz) ==
    /\ pc[0] = "idle"
    /\ cmds < MaxCmds
    /\ cc' = [cc EXCEPT ![0] = [NoCC EXCEPT !.id = id, !.user = u, !.exit = p, !.size = sz]]
    /\ pc' = [pc EXCEPT ![0] = "cc_read"]
    /\ cmds' = cmds + 1
    /\ UNCHANGED <<gw, depCall, rush, stCall, reminders, tasks, timers, delivered, sched, storeVars, outVars,
                   lastSharpChangeAlert, now, stopMon, loopVars, polls>>

\* DeleteByID with DELETE FROM alerts WHERE id = ?, whatever the chat
DeleteByIDAnyChat(al, chat, id) ==
    IF id \in DOMAIN al THEN Drop(al, id) ELSE al

\* DatabaseStorage.DeleteByID: DELETE FROM alerts WHERE id = ? AND chat_id = ?
DeleteByID(al, chat, id) ==
    IF id \in DOMAIN al /\ al[id].chat = chat THEN Drop(al, id) ELSE al

\* DeleteByID: RowsAffected of its DELETE
AlertsAffected(al, chat, id) ==
    IF id \in DOMAIN al /\ al[id].chat = chat THEN 1 ELSE 0

\* a caller runs DeleteByID(chat, id); okExec tells whether the DELETE
\* succeeds; ok is the boolean returned (affected > 0), err whether an error
\* was returned
CallDeleteByID(chat, id, okExec) ==
    /\ pc[0] = "idle"
    /\ cmds < MaxCmds
    /\ alerts' = IF okExec THEN DeleteByID(alerts, chat, id) ELSE alerts
    /\ stCall' = [NoStCall EXCEPT !.fn = "DeleteByID", !.id = id, !.user = chat,
                                  !.ok = okExec /\ AlertsAffected(alerts, chat, id) > 0,
                                  !.err = ~okExec]
    /\ cmds' = cmds + 1
    /\ UNCHANGED <<gw, depCall, rush, reminders, tasks, timers, delivered, sched, nextAlert, calls,
                   deposits, triggers, sharpLog, outVars, lastSharpChangeAlert, now, stopMon,
                   pc, loopVars, cc, polls>>


\* ------------------------------------------------------- reminder.Scheduler
\* GetPendingReminders: the rows WHERE trigger_at > datetime('now') ORDER BY
\* trigger_at (rows of one trigger time by id)
RECURSIVE PendingFrom(_, _)
PendingFrom(rem, ids) ==
    IF ids = {} THEN <<>>
    ELSE LET first == CHOOSE i \in ids :
                          \A j \in ids : \/ rem[i] < rem[j]
                                          \/ (rem[i] = rem[j] /\ i <= j)
         IN <<[id |-> first, at |-> rem[first]]>> \o PendingFrom(rem, ids \ {first})

GetPendingReminders(rem, t) == PendingFrom(rem, {i \in DOMAIN rem : rem[i] > t})

\* DeleteExpiredReminders: DELETE FROM reminders WHERE trigger_at < datetime('now')
DeleteExpiredReminders(rem, t) == [i \in {j \in DOMAIN rem : rem[j] >= t} |-> rem[i]]

\* Scheduler.schedule(t) called at time now by Start or Add: with no time
\* left fire runs in the caller (the message, DeleteReminder, the map);
\* otherwise time.AfterFunc makes a timer and the map gets it under the id
Schedule(t, rem) ==
    IF t.at - now <= 0
    THEN /\ delivered' = [delivered EXCEPT ![t.id] = @ + 1]
         /\ reminders' = Drop(rem, t.id)
         /\ tasks' = Drop(tasks, t.id)
         /\ UNCHANGED timers
    ELSE /\ tasks' = Put(tasks, t.id, t.at)
         /\ timers' = Append(timers, [id |-> t.id, at |-> t.at, st |-> "armed"])
         /\ reminders' = rem
         /\ UNCHANGED delivered

\* /remind TICKER dur: Scheduler.Add makes the task with the next id,
\* InsertReminder stores it (ok: the INSERT succeeds; otherwise the error is
\* returned and nothing is scheduled), then schedule
CmdRemind(dur, ok) ==
    /\ pc[0] = "idle"
    /\ Cardinality(DOMAIN delivered) < MaxReminders
    /\ now + dur <= MaxTime
    /\ LET id == Cardinality(DOMAIN delivered) + 1
           task == [id |-> id, at |-> now + dur]
       IN IF ~ok
          THEN UNCHANGED <<reminders, tasks, timers, delivered>>
          ELSE IF dur <= 0
          THEN /\ delivered' = Put(delivered, id, 1)
               /\ UNCHANGED <<reminders, tasks, timers>>
          ELSE /\ delivered' = Put(delivered, id, 0)
               /\ tasks' = Put(tasks, id, task.at)
               /\ timers' = Append(timers, [id |-> id, at |-> task.at, st |-> "armed"])
               /\ reminders' = Put(reminders, id, task.at)
    /\ UNCHANGED <<gw, depCall, rush, stCall, sched, storeVars, outVars, lastSharpChangeAlert,
                   now, stopMon, pc, loopVars, cc, polls, cmds>>

\* Scheduler.Start, run as a goroutine by TelegramBot.Start: GetPendingReminders
StartLoad ==
    /\ sched.st = "start"
    /\ sched' = [st |-> "load", loaded |-> GetPendingReminders(reminders, now)]
    /\ UNCHANGED <<gw, depCall, rush, stCall, reminders, tasks, timers, delivered, storeVars,
                   outVars, lastSharpChangeAlert, now, stopMon, pc, loopVars, cc, polls, cmds>>

\* Scheduler.Start: schedule for the next task loaded; after the last one the
\* ticker of the sweep is started
StartSchedule ==
    /\ sched.st = "load"
    /\ IF sched.loaded = <<>>
       THEN /\ sched' = [sched EXCEPT !.st = "run"]
            /\ UNCHANGED <<reminders, tasks, timers, delivered>>
       ELSE /\ sched' = [sched EXCEPT !.loaded = Tail(@)]
            /\ Schedule(Head(sched.loaded), reminders)
    /\ UNCHANGED <<gw, depCall, rush, stCall, storeVars, outVars, lastSharpChangeAlert, now,
                   stopMon, pc, loopVars, cc, polls, cmds>>

\* the goroutine of Start on a tick of its one-minute ticker: DeleteExpiredReminders
Sweep ==
    /\ sched.st = "run"
    /\ reminders' = DeleteExpiredReminders(reminders, now)
    /\ UNCHANGED <<gw, depCall, rush, stCall, tasks, timers, delivered, sched, storeVars,
                   outVars, lastSharpChangeAlert, now, stopMon, pc, loopVars, cc, polls, cmds>>

\* the sequence s without its k-th element
Without(s, k) == SubSeq(s, 1, k - 1) \o SubSeq(s, k + 1, Len(s))

\* a timer whose time has come runs fire: s.api.Send, the error ignored
TimerSend(k) ==
    /\ k \in 1..Len(timers)
    /\ timers[k].st = "armed"
    /\ now >= timers[k].at
    /\ delivered' = [delivered EXCEPT ![timers[k].id] = @ + 1]
    /\ timers' = [timers EXCEPT ![k].st = "sent"]
    /\ UNCHANGED <<gw, depCall, rush, stCall, reminders, tasks, sched, storeVars, outVars,
                   lastSharpChangeAlert, now, stopMon, pc, loopVars, cc, polls, cmds>>

\* fire: DeleteReminder(s.db, t.ID)
TimerDelete(k) ==
    /\ k \in 1..Len(timers)
    /\ timers[k].st = "sent"
    /\ reminders' = Drop(reminders, timers[k].id)
    /\ timers' = [timers EXCEPT ![k].st = "deleted"]
    /\ UNCHANGED <<gw, depCall, rush, stCall, tasks, delivered, sched, storeVars, outVars,
                   lastSharpChangeAlert, now, stopMon, pc, loopVars, cc, polls, cmds>>

\* fire: delete(s.tasks, t.ID) under s.mu; the timer is done
TimerUnmap(k) ==
    /\ k \in 1..Len(timers)
    /\ timers[k].st = "deleted"
    /\ tasks' = Drop(tasks, timers[k].id)
    /\ timers' = Without(timers, k)
    /\ UNCHANGED <<gw, depCall, rush, stCall, reminders, delivered, sched, storeVars, outVars,
                   lastSharpChangeAlert, now, stopMon, pc, loopVars, cc, polls, cmds>>

\* Tick minutes pass, whether the process runs or not; the loop of Start over
\* the tasks it loaded takes no time
TimePasses ==
    /\ now + Tick <= MaxTime
    /\ sched.st # "load"
    /\ now' = now + Tick
    /\ UNCHANGED <<gw, depCall, extVars, storeVars, outVars, lastSharpChangeAlert, stopMon, pc,
                   loopVars, cc, polls, cmds>>

\* the process ends at any point: goroutines, timers, caches and the map of
\* the scheduler are gone, the database stays; cmds counts the stop like a
\* command
ProcessStop ==
    /\ sched.st # "down"
    /\ cmds < MaxCmds
    /\ cmds' = cmds + 1
    /\ stopMon' = 0
    /\ pc' = [t \in Threads |-> "down"]
    /\ lastSharpChangeAlert' = EmptyFn
    /\ ctxDone' = [l \in Loops |-> FALSE]
    /\ lastPriceBy' = [l \in Loops |-> EmptyFn]
    /\ todo' = [l \in Loops |-> <<>>]
    /\ cur' = [l \in Loops |-> NoCur]
    /\ alertsL' = [l \in Loops |-> <<>>]
    /\ ev' = [l \in Loops |-> NoEv]
    /\ callsL' = [l \in Loops |-> <<>>]
    /\ slEv' = [l \in Loops |-> NoSlEv]
    /\ sc' = [l \in Loops |-> NoSc]
    /\ cc' = [t \in Threads |-> NoCC]
    /\ rush' = NoRush
    /\ tasks' = EmptyFn
    /\ timers' = <<>>
    /\ sched' = [st |-> "down", loaded |-> <<>>]
    /\ UNCHANGED <<gw, depCall, stCall, reminders, delivered, storeVars, outVars, now, polls>>

\* the process is started over the database left behind: NewDatabaseStorage
\* with migrate, NewTelegramBot, TelegramBot.Start up to `go b.scheduler.Start(ctx)`
ProcessStart ==
    /\ sched.st = "down"
    /\ calls' = migrate(calls)
    /\ LET symbols == GetAllSymbols(alerts, migrate(calls))
       IN /\ stopMon' = IF symbols # <<>> THEN 1 ELSE 0
          /\ pc' = [t \in Threads |-> IF t = 1 /\ symbols # <<>> THEN "poll" ELSE "idle"]
    /\ sched' = NoSched
    /\ UNCHANGED <<gw, depCall, rush, stCall, reminders, tasks, timers, delivered, alerts,
                   nextAlert, deposits, triggers, sharpLog, outVars, lastSharpChangeAlert, now,
                   loopVars, cc, polls, cmds>>


\* ------------------------------------------------------- PriceMonitor.Run
\* cleanupOldPrices: drop the cached prices of symbols not in currentSymbols
cleanupOldPrices(cache, currentSymbols) ==
    [x \in {y \in DOMAIN cache : \E k \in 1..Len(currentSymbols) : currentSymbols[k] = y}
        |-> cache[x]]

\* AfterPoll with Run returning when the provider has no symbol
AfterPollStopsWhenEmpty(symbols) == IF symbols = <<>> THEN "stopped" ELSE "fetch"

\* poll: `if len(symbols) == 0 { return }` takes Run back to its select,
\* otherwise the for loop over the symbols starts
AfterPoll(symbols) == IF symbols = <<>> THEN "wait" ELSE "fetch"

\* poll up to the for loop: GetAllSymbols, the empty return, cleanupOldPrices
Poll(l) ==
    /\ pc[l] = "poll"
    /\ polls[l] < MaxPolls
    /\ polls' = [polls EXCEPT ![l] = @ + 1]
    /\ LET symbols == GetAllSymbols(alerts, calls)
       IN /\ pc' = [pc EXCEPT ![l] = AfterPoll(symbols)]
          /\ IF symbols = <<>>
             THEN UNCHANGED <<lastPriceBy, todo>>
             ELSE /\ lastPriceBy' = [lastPriceBy EXCEPT ![l] = cleanupOldPrices(@, symbols)]
                  /\ todo' = [todo EXCEPT ![l] = symbols]
    /\ cur' = [cur EXCEPT ![l] = NoCur]
    /\ UNCHANGED <<gw, depCall, extVars, storeVars, outVars, lastSharpChangeAlert, now, stopMon, ctxDone,
                   alertsL, ev, callsL, slEv, sc, cc, cmds>>

\* FetchOutcome passing a failed fetch on like a fetched price
FetchOutcomeIgnoringErrors(had, prev, r) ==
    IF ~had \/ prev = 0 THEN "first"
    ELSE "handler"

\* FetchOutcome calling the handler on the first price too
FetchOutcomeNoInitial(had, prev, r) ==
    IF r = 0 THEN "failed"
    ELSE "handler"

\* poll: what the loop body does with the fetch result r (0 is an error)
FetchOutcome(had, prev, r) ==
    IF r = 0 THEN "failed"
    ELSE IF ~had \/ prev = 0 THEN "first"
    ELSE IF DeltaPasses(prev, r) THEN "handler"
    ELSE "gated"

\* poll, one iteration of the for loop: FetchSpotPrice, the cache update, the gate
Fetch(l, r) ==
    /\ pc[l] = "fetch"
    /\ LET sym == Head(todo[l])
           had == sym \in DOMAIN lastPriceBy[l]
           prev == IF had THEN lastPriceBy[l][sym] ELSE 0
           out == FetchOutcome(had, prev, r)
       IN /\ lastPriceBy' = IF r = 0 THEN lastPriceBy
                            ELSE [lastPriceBy EXCEPT ![l] = Put(@, sym, r)]
          /\ cur' = [cur EXCEPT ![l] = [sym |-> sym, price |-> r, prev |-> prev,
                                        st |-> out, ran |-> {}]]
          /\ IF out = "handler"
             THEN /\ pc' = [pc EXCEPT ![l] = "h_read"]
                  /\ UNCHANGED todo
             ELSE /\ todo' = [todo EXCEPT ![l] = Tail(@)]
                  /\ pc' = [pc EXCEPT ![l] = AfterSymbol(Tail(todo[l]))]
    /\ UNCHANGED <<gw, depCall, extVars, storeVars, outVars, lastSharpChangeAlert, now, stopMon, ctxDone,
                   alertsL, ev, callsL, slEv, sc, cc, polls, cmds>>

\* Run, select: case <-ticker.C
WaitTick(l) ==
    /\ pc[l] = "wait"
    /\ polls[l] < MaxPolls
    /\ pc' = [pc EXCEPT ![l] = "poll"]
    /\ UNCHANGED <<gw, depCall, extVars, storeVars, outVars, lastSharpChangeAlert, now, stopMon, loopVars,
                   cc, polls, cmds>>

\* Run, select: case <-ctx.Done()
WaitDone(l) ==
    /\ pc[l] = "wait"
    /\ ctxDone[l]
    /\ pc' = [pc EXCEPT ![l] = "stopped"]
    /\ cur' = [cur EXCEPT ![l] = NoCur]
    /\ UNCHANGED <<gw, depCall, extVars, storeVars, outVars, lastSharpChangeAlert, now, stopMon, ctxDone,
                   lastPriceBy, todo, alertsL, ev, callsL, slEv, sc, cc, polls, cmds>>

\* ------------------------------------------- the handler of startMonitoring
\* LogPriceHistory, GetBySymbol, GetAllOpenCalls, the filter and the emptiness test
HandlerRead(l) ==
    /\ pc[l] = "h_read"
    /\ LET alertsForSymbol == GetBySymbol(alerts, cur[l].sym)
           symbolCalls == SymbolCalls(calls, cur[l].sym)
       IN IF Len(alertsForSymbol) > 0 \/ Len(symbolCalls) > 0
          THEN /\ callsL' = [callsL EXCEPT ![l] = symbolCalls]
               /\ pc' = [pc EXCEPT ![l] = "ca_read"]
               /\ UNCHANGED <<todo, cur>>
          ELSE /\ cur' = [cur EXCEPT ![l].st = "skipped"]
               /\ todo' = [todo EXCEPT ![l] = Tail(@)]
               /\ pc' = [pc EXCEPT ![l] = AfterSymbol(Tail(todo[l]))]
               /\ UNCHANGED callsL
    /\ UNCHANGED <<gw, depCall, extVars, storeVars, outVars, lastSharpChangeAlert, now, stopMon, ctxDone,
                   lastPriceBy, alertsL, ev, slEv, sc, cc, polls, cmds>>

\* checkAlerts: alerts := b.st.GetBySymbol(symbol)
CA_Read(l) ==
    /\ pc[l] = "ca_read"
    /\ alertsL' = [alertsL EXCEPT ![l] = GetBySymbol(alerts, cur[l].sym)]
    /\ cur' = [cur EXCEPT ![l].ran = @ \cup {"alerts"}]
    /\ pc' = [pc EXCEPT ![l] = "ca_eval"]
    /\ UNCHANGED <<gw, depCall, extVars, storeVars, outVars, lastSharpChangeAlert, now, stopMon, ctxDone,
                   lastPriceBy, todo, ev, callsL, slEv, sc, cc, polls, cmds>>

\* checkAlerts, one iteration up to `if triggered`
CA_Eval(l) ==
    /\ pc[l] = "ca_eval"
    /\ IF alertsL[l] = <<>>
       THEN /\ pc' = [pc EXCEPT ![l] = "sc_base"]
            /\ ev' = [ev EXCEPT ![l] = NoEv]
            /\ UNCHANGED alertsL
       ELSE LET a == Head(alertsL[l])
                kind == TriggerKind(a, cur[l].price)
            IN /\ ev' = [ev EXCEPT ![l] = [a |-> a, price |-> cur[l].price, kind |-> kind]]
               /\ IF kind = "none"
                  THEN /\ alertsL' = [alertsL EXCEPT ![l] = Tail(@)]
                       /\ UNCHANGED pc
                  ELSE /\ pc' = [pc EXCEPT ![l] = "ca_log"]
                       /\ UNCHANGED alertsL
    /\ UNCHANGED <<gw, depCall, extVars, storeVars, outVars, lastSharpChangeAlert, now, stopMon, ctxDone,
                   lastPriceBy, todo, cur, callsL, slEv, sc, cc, polls, cmds>>

\* checkAlerts: b.st.LogAlertTrigger(...), its error ignored
CA_Log(l, ok) ==
    /\ pc[l] = "ca_log"
    /\ triggers' = IF ok THEN [triggers EXCEPT ![ev[l].a.id] = @ + 1] ELSE triggers
    /\ pc' = [pc EXCEPT ![l] = "ca_reply"]
    /\ UNCHANGED <<gw, depCall, extVars, alerts, nextAlert, calls, deposits, sharpLog, outVars,
                   lastSharpChangeAlert, now, stopMon, loopVars, cc, polls, cmds>>

\* checkAlerts: b.reply(alert.ChatID, msg); a failed send is only logged
CA_Reply(l, ok) ==
    /\ pc[l] = "ca_reply"
    /\ notified' = IF ok THEN [notified EXCEPT ![ev[l].a.id] = @ + 1] ELSE notified
    /\ pc' = [pc EXCEPT ![l] = "ca_delete"]
    /\ UNCHANGED <<gw, depCall, extVars, storeVars, slNotified, sharpSent, lastSharpChangeAlert, now, stopMon,
                   loopVars, cc, polls, cmds>>

\* checkAlerts: b.st.DeleteByID(alert.ChatID, alert.ID), an error only logged
CA_Delete(l, ok) ==
    /\ pc[l] = "ca_delete"
    /\ alerts' = IF ok THEN DeleteByID(alerts, ev[l].a.chat, ev[l].a.id) ELSE alerts
    /\ alertsL' = [alertsL EXCEPT ![l] = Tail(@)]
    /\ ev' = [ev EXCEPT ![l] = NoEv]
    /\ pc' = [pc EXCEPT ![l] = "ca_eval"]
    /\ UNCHANGED <<gw, depCall, extVars, nextAlert, calls, deposits, triggers, sharpLog, outVars,
                   lastSharpChangeAlert, now, stopMon, ctxDone, lastPriceBy, todo, cur,
                   callsL, slEv, sc, cc, polls, cmds>>


\* UsesLastAlert without the lookback window
UsesLastAlertOfAnyAge(exists, since) == exists

\* checkSharpChange: if exists && time.Since(lastAlert.Time) < SharpChangeIntervalMin
UsesLastAlert(exists, since) == exists /\ since < SharpChangeIntervalMin

\* checkSharpChange up to the threshold test: the baseline is the price of the
\* last sharp-change alert when younger than the lookback window, else the
\* historical price h (0 is a failed fetch, on which the function returns);
\* sc holds the locals oldPrice, err and the price fetchHistoricalPrice returned
SC_Base(l, h) ==
    /\ pc[l] = "sc_base"
    /\ LET sym == cur[l].sym
           exists == sym \in DOMAIN lastSharpChangeAlert
           since == IF exists THEN now - lastSharpChangeAlert[sym].Time ELSE 0
           rebased == UsesLastAlert(exists, since)
           oldPrice == IF rebased THEN lastSharpChangeAlert[sym].Price ELSE h
       IN /\ rebased => h = 0
          /\ sc' = [sc EXCEPT ![l] = [old |-> oldPrice, chats |-> {},
                                      hist |-> IF rebased THEN 0 ELSE h,
                                      err |-> ~rebased /\ h = 0]]
          /\ IF oldPrice # 0 /\ SharpHit(oldPrice, cur[l].price)
             THEN pc' = [pc EXCEPT ![l] = "sc_check"]
             ELSE pc' = [pc EXCEPT ![l] = "sl_eval"]
    /\ cur' = [cur EXCEPT ![l].ran = @ \cup {"sharp"}]
    /\ UNCHANGED <<gw, depCall, extVars, storeVars, outVars, lastSharpChangeAlert, now, stopMon, ctxDone,
                   lastPriceBy, todo, alertsL, ev, callsL, slEv, cc, polls, cmds>>

\* CooldownOver with no cooldown at all
CooldownAlwaysOver(exists, since) == TRUE

\* checkSharpChange: if !exists || now.Sub(lastAlertTime.Time) >= 5*time.Minute
CooldownOver(exists, since) == ~exists \/ since >= SharpCooldownMin

\* SC_Check with the update of lastSharpChangeAlert left out of the section
SC_CheckWithoutUpdate(l) ==
    /\ pc[l] = "sc_check"
    /\ LET sym == cur[l].sym
           exists == sym \in DOMAIN lastSharpChangeAlert
           since == IF exists THEN now - lastSharpChangeAlert[sym].Time ELSE 0
       IN IF CooldownOver(exists, since)
          THEN /\ lastSharpChangeAlert' =
                      IF exists THEN lastSharpChangeAlert
                      ELSE Put(lastSharpChangeAlert, sym, [Time |-> now, Price |-> cur[l].price])
               /\ pc' = [pc EXCEPT ![l] = "sc_read"]
               /\ UNCHANGED sc
          ELSE /\ pc' = [pc EXCEPT ![l] = "sl_eval"]
               /\ sc' = [sc EXCEPT ![l] = NoSc]
               /\ UNCHANGED lastSharpChangeAlert
    /\ UNCHANGED <<gw, depCall, extVars, storeVars, outVars, now, stopMon, ctxDone, lastPriceBy, todo, cur,
                   alertsL, ev, callsL, slEv, cc, polls, cmds>>

\* checkSharpChange, the section under sharpChangeMu: the cooldown test and the update
SC_Check(l) ==
    /\ pc[l] = "sc_check"
    /\ LET sym == cur[l].sym
           exists == sym \in DOMAIN lastSharpChangeAlert
           since == IF exists THEN now - lastSharpChangeAlert[sym].Time ELSE 0
       IN IF CooldownOver(exists, since)
          THEN /\ lastSharpChangeAlert' =
                      Put(lastSharpChangeAlert, sym, [Time |-> now, Price |-> cur[l].price])
               /\ pc' = [pc EXCEPT ![l] = "sc_read"]
               /\ UNCHANGED sc
          ELSE /\ pc' = [pc EXCEPT ![l] = "sl_eval"]
               /\ sc' = [sc EXCEPT ![l] = NoSc]
               /\ UNCHANGED lastSharpChangeAlert
    /\ UNCHANGED <<gw, depCall, extVars, storeVars, outVars, now, stopMon, ctxDone, lastPriceBy, todo, cur,
                   alertsL, ev, callsL, slEv, cc, polls, cmds>>

\* AlertedUsers without the chats of the open calls
AlertedUsersOfAlerts(al, cl, s) ==
    {al[i].chat : i \in {j \in DOMAIN al : al[j].sym = s}}

\* checkSharpChange: alertedUsers, the chats with an alert or an open call on the symbol
AlertedUsers(al, cl, s) ==
    {al[i].chat : i \in {j \in DOMAIN al : al[j].sym = s}}
    \cup {cl[i].user : i \in {j \in DOMAIN cl : cl[j].status = "open" /\ cl[j].sym = s}}

\* checkSharpChange: GetBySymbol, GetAllOpenCalls and the map of unique chats
SC_Read(l) ==
    /\ pc[l] = "sc_read"
    /\ LET chats == AlertedUsers(alerts, calls, cur[l].sym)
       IN IF chats = {}
          THEN /\ pc' = [pc EXCEPT ![l] = "sl_eval"]
               /\ sc' = [sc EXCEPT ![l] = NoSc]
          ELSE /\ pc' = [pc EXCEPT ![l] = "sc_notify"]
               /\ sc' = [sc EXCEPT ![l].chats = chats]
    /\ UNCHANGED <<gw, depCall, extVars, storeVars, outVars, lastSharpChangeAlert, now, stopMon, ctxDone,
                   lastPriceBy, todo, cur, alertsL, ev, callsL, slEv, cc, polls, cmds>>

\* checkSharpChange, one iteration over alertedUsers: reply and LogAlertTrigger
SC_Notify(l, u, sent, logged) ==
    /\ pc[l] = "sc_notify"
    /\ u \in sc[l].chats
    /\ sharpSent' = IF sent THEN [sharpSent EXCEPT ![cur[l].sym][u] = @ + 1] ELSE sharpSent
    /\ sharpLog' = IF logged THEN [sharpLog EXCEPT ![cur[l].sym][u] = @ + 1] ELSE sharpLog
    /\ IF sc[l].chats = {u}
       THEN /\ pc' = [pc EXCEPT ![l] = "sl_eval"]
            /\ sc' = [sc EXCEPT ![l] = NoSc]
       ELSE /\ sc' = [sc EXCEPT ![l].chats = @ \ {u}]
            /\ UNCHANGED pc
    /\ UNCHANGED <<gw, depCall, extVars, alerts, nextAlert, calls, deposits, triggers, notified, slNotified,
                   lastSharpChangeAlert, now, stopMon, ctxDone, lastPriceBy, todo, cur,
                   alertsL, ev, callsL, slEv, cc, polls, cmds>>

\* the stop-loss loop of the handler, one iteration up to `if triggeredSL`;
\* with no call left the handler returns to poll; checkSharpChange has
\* returned and its locals are gone
SL_Eval(l) ==
    /\ pc[l] = "sl_eval"
    /\ sc' = [sc EXCEPT ![l] = NoSc]
    /\ IF callsL[l] = <<>>
       THEN /\ cur' = [cur EXCEPT ![l].ran = @ \cup {"sl"}, ![l].st = "done"]
            /\ slEv' = [slEv EXCEPT ![l] = NoSlEv]
            /\ todo' = [todo EXCEPT ![l] = Tail(@)]
            /\ pc' = [pc EXCEPT ![l] = AfterSymbol(Tail(todo[l]))]
            /\ UNCHANGED <<callsL, cc>>
       ELSE LET call == Head(callsL[l])
                hit == StopLossHit(call, cur[l].price)
            IN /\ cur' = [cur EXCEPT ![l].ran = @ \cup {"sl"}]
               /\ slEv' = [slEv EXCEPT ![l] = [c |-> call, price |-> cur[l].price, hit |-> hit]]
               /\ UNCHANGED todo
               /\ IF hit
                  THEN /\ cc' = [cc EXCEPT ![l] = [NoCC EXCEPT !.id = call.id,
                                     !.user = call.user, !.exit = cur[l].price,
                                     !.size = call.size]]
                       /\ pc' = [pc EXCEPT ![l] = "cc_read"]
                       /\ UNCHANGED callsL
                  ELSE /\ callsL' = [callsL EXCEPT ![l] = Tail(@)]
                       /\ UNCHANGED <<pc, cc>>
    /\ UNCHANGED <<gw, depCall, extVars, storeVars, outVars, lastSharpChangeAlert, now, stopMon, ctxDone,
                   lastPriceBy, alertsL, ev, polls, cmds>>

\* SendsStopLoss with the error of CloseCall ignored
SendsStopLossAlways(ret) == TRUE

\* handler: if err != nil { log } else { b.reply(call.ChatID, slMsg) }
SendsStopLoss(ret) == ret = "ok"

\* the handler after CloseCall returned: the error is logged, success is notified
\* (sent is the delivery of the message, a failed send is only logged)
SL_After(l, sent) ==
    /\ pc[l] = "sl_after"
    /\ ~SendsStopLoss(cc[l].ret) => sent
    /\ slNotified' = IF SendsStopLoss(cc[l].ret) /\ sent
                     THEN [slNotified EXCEPT ![cc[l].id] = @ + 1]
                     ELSE slNotified
    /\ callsL' = [callsL EXCEPT ![l] = Tail(@)]
    /\ cc' = [cc EXCEPT ![l] = NoCC]
    /\ pc' = [pc EXCEPT ![l] = "sl_eval"]
    /\ UNCHANGED <<gw, depCall, extVars, storeVars, notified, sharpSent, lastSharpChangeAlert, now, stopMon,
                   ctxDone, lastPriceBy, todo, cur, alertsL, ev, slEv, sc, polls, cmds>>

\* ------------------------------------------------ DatabaseStorage.CloseCall
\* SELECT ... WHERE id = ? AND user_id = ? AND status = 'open', the size check, the PnL;
\* ret is the error returned: "notfound" (sql.ErrNoRows), "size" (the size check),
\* "store" (the UPDATE failed), or "ok" for nil
CC_Read(t) ==
    /\ pc[t] = "cc_read"
    /\ LET p == cc[t]
           found == p.id \in DOMAIN calls /\ calls[p.id].user = p.user
                    /\ calls[p.id].status = "open"
       IN IF ~found \/ p.size <= 0 \/ p.size > calls[p.id].size
          THEN /\ cc' = [cc EXCEPT ![t].ret = IF found THEN "size" ELSE "notfound"]
               /\ pc' = [pc EXCEPT ![t] = Return(t)]
          ELSE LET call == calls[p.id]
               IN /\ cc' = [cc EXCEPT ![t].z = call.size, ![t].dir = call.dir,
                              ![t].entry = call.entry, ![t].dep = call.dep,
                              ![t].pnl = BasePnl(call.dir, call.entry, p.exit)]
                  /\ pc' = [pc EXCEPT ![t] = IF call.dep > 0 THEN "cc_getdep" ELSE "cc_update"]
    /\ UNCHANGED <<gw, depCall, extVars, storeVars, outVars, lastSharpChangeAlert, now, stopMon, loopVars,
                   polls, cmds>>

\* GetUserDeposit writing (100, 100) over the row it finds
GetUserDepositResetting(dp, u, okQuery, okInsert) ==
    IF ~okQuery \/ ~okInsert
    THEN [dp |-> dp, initial |-> 0, current |-> 0, err |-> TRUE]
    ELSE [dp |-> Put(dp, u, [initial |-> InitialDeposit, current |-> InitialDeposit]),
          initial |-> InitialDeposit, current |-> InitialDeposit, err |-> FALSE]

\* DatabaseStorage.GetUserDeposit over the table dp: the table afterwards and
\* the triple returned; okQuery and okInsert tell whether the SELECT and the
\* INSERT succeed (sql.ErrNoRows is no failure of the SELECT)
GetUserDeposit(dp, u, okQuery, okInsert) ==
    IF ~okQuery
    THEN [dp |-> dp, initial |-> 0, current |-> 0, err |-> TRUE]
    ELSE IF u \in DOMAIN dp
    THEN [dp |-> dp, initial |-> dp[u].initial, current |-> dp[u].current, err |-> FALSE]
    ELSE IF ~okInsert
    THEN [dp |-> dp, initial |-> 0, current |-> 0, err |-> TRUE]
    ELSE [dp |-> Put(dp, u, [initial |-> InitialDeposit, current |-> InitialDeposit]),
          initial |-> InitialDeposit, current |-> InitialDeposit, err |-> FALSE]

\* CloseCall: GetUserDeposit (the row is created with 100, 100 when missing; a
\* failed insert skips the deposit update) and the computation of newDeposit
CC_GetDeposit(t, ok) ==
    /\ pc[t] = "cc_getdep"
    /\ LET p == cc[t]
           has == p.user \in DOMAIN deposits
           got == GetUserDeposit(deposits, p.user, TRUE, ok)
           current == got.current
       IN /\ has => ok
          /\ deposits' = got.dp
          /\ IF ~got.err
             THEN /\ cc' = [cc EXCEPT ![t].current = current,
                                       ![t].newDep = NewDeposit(current, p.dep, p.size, p.z, p.pnl)]
                  /\ pc' = [pc EXCEPT ![t] = "cc_upddep"]
             ELSE /\ pc' = [pc EXCEPT ![t] = "cc_update"]
                  /\ UNCHANGED cc
    /\ UNCHANGED <<gw, depCall, extVars, alerts, nextAlert, calls, triggers, sharpLog, outVars,
                   lastSharpChangeAlert, now, stopMon, loopVars, polls, cmds>>

\* DatabaseStorage.UpdateUserDeposit: insert (100, newDeposit) or update current_deposit
UpdateUserDeposit(dp, u, newDeposit) ==
    IF u \in DOMAIN dp THEN [dp EXCEPT ![u].current = newDeposit]
    ELSE Put(dp, u, [initial |-> InitialDeposit, current |-> newDeposit])

\* CloseCall: s.UpdateUserDeposit(userID, newDeposit), an error only logged
CC_UpdDeposit(t, ok) ==
    /\ pc[t] = "cc_upddep"
    /\ deposits' = IF ok THEN UpdateUserDeposit(deposits, cc[t].user, cc[t].newDep)
                   ELSE deposits
    /\ pc' = [pc EXCEPT ![t] = "cc_update"]
    /\ UNCHANGED <<gw, depCall, extVars, alerts, nextAlert, calls, triggers, sharpLog, outVars,
                   lastSharpChangeAlert, now, stopMon, loopVars, cc, polls, cmds>>

\* ClosedRow closing the call only when nothing at all remains
ClosedRowNoThreshold(row, z, s, exitPrice, pnl) ==
    LET newSize == z - s
    IN IF newSize <= 0
       THEN [row EXCEPT !.exit = exitPrice, !.pnl = pnl, !.size = 0,
                        !.status = "closed", !.closedAt = TRUE]
       ELSE [row EXCEPT !.exit = exitPrice, !.pnl = pnl, !.size = newSize,
                        !.status = "open", !.closedAt = FALSE]

\* CloseCall: the row written for the size z read and the size s closed
ClosedRow(row, z, s, exitPrice, pnl) ==
    LET newSize == z - s
    IN IF newSize < MinSize
       THEN [row EXCEPT !.exit = exitPrice, !.pnl = pnl, !.size = 0,
                        !.status = "closed", !.closedAt = TRUE]
       ELSE [row EXCEPT !.exit = exitPrice, !.pnl = pnl, !.size = newSize,
                        !.status = "open", !.closedAt = FALSE]

\* a caller runs GetUserDeposit(u)
CallGetUserDeposit(u, okQuery, okInsert) ==
    /\ LET got == GetUserDeposit(deposits, u, okQuery, okInsert)
       IN /\ deposits' = got.dp
          /\ depCall' = [fn |-> "get", user |-> u, initial |-> got.initial,
                         current |-> got.current, err |-> got.err]
    /\ UNCHANGED <<gw, extVars, alerts, nextAlert, calls, triggers, sharpLog, outVars,
                   lastSharpChangeAlert, now, stopMon, pc, loopVars, cc, polls, cmds>>

\* a caller runs UpdateUserDeposit(u, newDeposit); ok tells whether its
\* statements succeed
CallUpdateUserDeposit(u, newDeposit, ok) ==
    /\ deposits' = IF ok THEN UpdateUserDeposit(deposits, u, newDeposit) ELSE deposits
    /\ depCall' = [fn |-> "update", user |-> u, initial |-> 0, current |-> newDeposit,
                   err |-> ~ok]
    /\ UNCHANGED <<gw, extVars, alerts, nextAlert, calls, triggers, sharpLog, outVars,
                   lastSharpChangeAlert, now, stopMon, pc, loopVars, cc, polls, cmds>>

\* CloseCall: UPDATE calls SET exit_price, pnl_percent, size, status, closed_at WHERE id = ?
CC_Update(t, ok) ==
    /\ pc[t] = "cc_update"
    /\ LET p == cc[t]
       IN /\ calls' = IF ok
                      THEN [calls EXCEPT ![p.id] = ClosedRow(@, p.z, p.size, p.exit, p.pnl)]
                      ELSE calls
          /\ cc' = [cc EXCEPT ![t].ret = IF ok THEN "ok" ELSE "store"]
    /\ pc' = [pc EXCEPT ![t] = Return(t)]
    /\ UNCHANGED <<gw, depCall, extVars, alerts, nextAlert, deposits, triggers, sharpLog, outVars,
                   lastSharpChangeAlert, now, stopMon, loopVars, polls, cmds>>

\* Tick minutes pass on the clock that time.Now and time.Since of
\* checkSharpChange read; time passes while the loops sleep on their tickers, a
\* pass itself takes no time
AdvanceTime ==
    /\ now + Tick <= MaxTime
    /\ \A l \in Loops : pc[l] \in {"idle", "wait", "stopped"}
    /\ now' = now + Tick
    /\ UNCHANGED <<gw, depCall, extVars, storeVars, outVars, lastSharpChangeAlert, stopMon, pc, loopVars, cc,
                   polls, cmds>>


\* ------------------------------------------------------------------ specs
Outcomes(P) == {0} \cup P           \* a price fetch: 0 is an error

TypeOK ==
    /\ \A i \in DOMAIN alerts : alerts[i].id = i
    /\ \A i \in DOMAIN calls : calls[i].id = i /\ calls[i].status \in {"open", "closed"}
    /\ \A t \in Threads : cc[t].ret \in {"none", "ok", "notfound", "size", "store"}
    /\ now \in 0..MaxTime

\* -- restarts: a fresh database, alerts come and go by /add and /del, every
\* one of which restarts the monitoring; the historical price lookup of
\* checkSharpChange fails
AlertPrices == {1000, 1010}

Init == InitOver(EmptyFn, EmptyFn)

Next ==
    \/ \E v \in PriceValues : CmdAddAlert(1, 1, "price", v, 1000)
    \/ \E v \in PctValues : CmdAddAlert(1, 1, "pct", v, 1000)
    \/ \E id \in 1..MaxAlerts : CmdDelAlert(1, id)
    \/ \E l \in Loops : Poll(l)
    \/ \E l \in Loops, r \in Outcomes(AlertPrices) : Fetch(l, r)
    \/ \E l \in Loops : WaitTick(l)
    \/ \E l \in Loops : WaitDone(l)
    \/ \E l \in Loops : HandlerRead(l)
    \/ \E l \in Loops : CA_Read(l)
    \/ \E l \in Loops : CA_Eval(l)
    \/ \E l \in Loops : CA_Log(l, TRUE)
    \/ \E l \in Loops : CA_Reply(l, TRUE)
    \/ \E l \in Loops, ok \in BOOLEAN : CA_Delete(l, ok)
    \/ \E l \in Loops : SC_Base(l, 0)
    \/ \E l \in Loops : SL_Eval(l)

Spec == Init /\ [][Next]_vars

\* -- evaluation: the bot starts over a database holding price alerts on either
\* symbol and percent alerts on the first, and no call; one loop polls, no
\* command arrives; the store and Telegram do not fail
EvalPrices == {990, 995, 1000, 1005, 1010}
EvalRows ==
    {[NoAlert EXCEPT !.chat = u, !.sym = s, !.tprice = v]
        : u \in {1}, s \in Symbols, v \in PriceValues}
    \cup {[NoAlert EXCEPT !.chat = u, !.sym = s, !.tpct = v, !.base = 1000]
        : u \in {1}, s \in {1}, v \in PctValues}

InitEval ==
    \E rows \in [1..MaxAlerts -> EvalRows] :
        /\ rows[1].sym = 1
        /\ rows[1].chat = 1
        /\ InitOver([i \in 1..MaxAlerts |-> [rows[i] EXCEPT !.id = i]], EmptyFn)

NextEval ==
    \/ \E l \in Loops : Poll(l)
    \/ \E l \in Loops, r \in Outcomes(EvalPrices) : Fetch(l, r)
    \/ \E l \in Loops : WaitTick(l)
    \/ \E l \in Loops : HandlerRead(l)
    \/ \E l \in Loops : CA_Read(l)
    \/ \E l \in Loops : CA_Eval(l)
    \/ \E l \in Loops : CA_Log(l, TRUE)
    \/ \E l \in Loops : CA_Reply(l, TRUE)
    \/ \E l \in Loops : CA_Delete(l, TRUE)
    \/ \E l \in Loops, h \in {0, 1000} : SC_Base(l, h)
    \/ \E l \in Loops : SC_Check(l)
    \/ \E l \in Loops : SC_Read(l)
    \/ \E l \in Loops, u \in Users : SC_Notify(l, u, TRUE, TRUE)
    \/ \E l \in Loops : SL_Eval(l)

SpecEval == InitEval /\ [][NextEval]_vars

\* -- calls: the bot starts over a database holding one alert far from the
\* market (so that a loop polls) and no call; calls are opened, given a
\* stop-loss and closed by command while the loop evaluates stop-losses
CallPrices == {990, 1000}
CloseSizes == {0, 40 * SizeUnit, FullSize - 1}  \* /ccall ID, /ccall ID 40, /ccall ID 99.9995
FarAlert == [NoAlert EXCEPT !.id = 1, !.chat = 1, !.sym = 1, !.tprice = 2000]

InitCalls == InitOver(1 :> FarAlert, EmptyFn)

NextCalls ==
    \/ \E dir \in Directions, dep \in DepValues, sl \in SLValues :
           CmdOpenCall(1, 1, dir, dep, sl, 1000)
    \/ \E id \in 1..MaxCalls : CmdSetStopLoss(1, id, -1)
    \/ \E id \in 1..MaxCalls, sz \in CloseSizes, p \in {1000} : CmdCloseCall(1, id, sz, p)
    \/ CmdCloseCallDone
    \/ \E l \in Loops : Poll(l)
    \/ \E l \in Loops, r \in Outcomes(CallPrices) : Fetch(l, r)
    \/ \E l \in Loops : WaitTick(l)
    \/ \E l \in Loops : HandlerRead(l)
    \/ \E l \in Loops : CA_Read(l)
    \/ \E l \in Loops : CA_Eval(l)
    \/ \E l \in Loops : SC_Base(l, 0)
    \/ \E l \in Loops : SL_Eval(l)
    \/ \E l \in Loops : SL_After(l, TRUE)
    \/ \E t \in Threads : CC_Read(t)
    \/ \E t \in Threads : CC_GetDeposit(t, TRUE)
    \/ \E t \in Threads, ok \in BOOLEAN : CC_UpdDeposit(t, ok)
    \/ \E t \in Threads, ok \in BOOLEAN : CC_Update(t, ok)

SpecCalls == InitCalls /\ [][NextCalls]_vars

\* -- sharp changes: the bot starts over a database holding alerts far from
\* the market, of either chat on either symbol, and at most one open call
\* without stop-loss; no command arrives, the clock runs, the historical price
\* lookup answers 100.0 or fails, sends and trigger-log inserts succeed
SharpPrices == {1020, 1041}
HistPrices == {1000}
SharpRows ==
    {[NoAlert EXCEPT !.chat = u, !.sym = s, !.tprice = 2000] : u \in Users, s \in Symbols}
SharpCalls ==
    {EmptyFn} \cup
    {1 :> [NoCall EXCEPT !.id = 1, !.user = u, !.sym = 1, !.entry = 1000,
                         !.size = FullSize, !.status = "open"] : u \in Users}

InitSharp ==
    \E rows \in [1..MaxAlerts -> SharpRows], cl \in SharpCalls :
        /\ rows[1].sym = 1
        /\ rows[1].chat = 1
        /\ InitOver([i \in 1..MaxAlerts |-> [rows[i] EXCEPT !.id = i]], cl)

NextSharp ==
    \/ AdvanceTime
    \/ \E l \in Loops : Poll(l)
    \/ \E l \in Loops, r \in Outcomes(SharpPrices) : Fetch(l, r)
    \/ \E l \in Loops : WaitTick(l)
    \/ \E l \in Loops : HandlerRead(l)
    \/ \E l \in Loops : CA_Read(l)
    \/ \E l \in Loops : CA_Eval(l)
    \/ \E l \in Loops, h \in Outcomes(HistPrices) : SC_Base(l, h)
    \/ \E l \in Loops : SC_Check(l)
    \/ \E l \in Loops : SC_Read(l)
    \/ \E l \in Loops, u \in Users : SC_Notify(l, u, TRUE, TRUE)
    \/ \E l \in Loops : SL_Eval(l)

SpecSharp == InitSharp /\ [][NextSharp]_vars

\* -- registry: the bot starts over a database holding at most one alert, far
\* from the market and possibly with an empty symbol, and at most one call,
\* open or closed; alerts are added and deleted and calls opened and closed by
\* command; every loop started queries the registry in its first pass, the
\* exchange does not answer and no ticker fires before the loop is cancelled
RegistryRows ==
    {[NoAlert EXCEPT !.chat = 1, !.sym = s, !.tprice = 2000] : s \in {0} \cup Symbols}
RegistryCalls ==
    {EmptyFn} \cup
    {1 :> [NoCall EXCEPT !.id = 1, !.user = 1, !.sym = s, !.entry = 1000,
                         !.size = FullSize, !.status = st]
        : s \in Symbols, st \in {"open", "closed"}}

InitRegistry ==
    \E n \in {0, 1}, cl \in RegistryCalls :
        \E rows \in [1..n -> RegistryRows] :
            InitOver([i \in 1..n |-> [rows[i] EXCEPT !.id = i]], cl)

NextRegistry ==
    \/ \E s \in Symbols : CmdAddAlert(1, s, "price", 2000, 1000)
    \/ \E id \in 1..MaxAlerts : CmdDelAlert(1, id)
    \/ \E s \in Symbols : CmdOpenCall(1, s, "long", 0, 0, 1000)
    \/ \E id \in 1..MaxCalls : CmdCloseCall(1, id, 0, 1000)
    \/ CC_Read(0)
    \/ CC_Update(0, TRUE)
    \/ CmdCloseCallDone
    \/ \E l \in Loops : Poll(l)
    \/ \E l \in Loops : Fetch(l, 0)
    \/ \E l \in Loops : WaitDone(l)

SpecRegistry == InitRegistry /\ [][NextRegistry]_vars

\* SpecRegistry with the goroutines of the loops scheduled fairly: a loop that
\* can take a step eventually takes one; nothing obliges a user to send a
\* command
SpecRegistryLive ==
    /\ SpecRegistry
    /\ \A l \in Loops : WF_vars(Poll(l) \/ Fetch(l, 0) \/ WaitDone(l))
    /\ WF_vars(CC_Read(0) \/ CC_Update(0, TRUE) \/ CmdCloseCallDone)

\* -- gateway: one call of FetchPriceInfo or FetchHistoricalPrice, over every
\* preference a caller can pass (none, a source, a pair that names no source)
\* and every combination of failing and answering requests
Exchanges == {"", "Bitget", "Bybit"}
Markets == {"", "spot", "futures"}

InitGateway ==
    /\ InitBot(EmptyFn, EmptyFn)
    /\ depCall = NoDepCall
    /\ InitExt
    /\ \E e \in Exchanges, m \in Markets, ok \in [1..(Len(FixedOrder) + 1) -> BOOLEAN] :
           gw = [NoGw EXCEPT !.exchange = e, !.market = m, !.ok = ok]

NextGateway ==
    \/ CallFetchPriceInfo
    \/ CallFetchHistoricalPrice

SpecGateway == InitGateway /\ [][NextGateway]_vars

\* -- deposits: calls of GetUserDeposit and UpdateUserDeposit in any order over
\* a table that starts empty, with statements that succeed or fail
NewDeposits == {9950, 10000, 10100}

InitDeposit == InitOver(EmptyFn, EmptyFn)

NextDeposit ==
    \/ \E u \in Users, okQuery \in BOOLEAN, okInsert \in BOOLEAN :
           CallGetUserDeposit(u, okQuery, okInsert)
    \/ \E u \in Users, v \in NewDeposits, ok \in BOOLEAN : CallUpdateUserDeposit(u, v, ok)

SpecDeposit == InitDeposit /\ [][NextDeposit]_vars

\* -- /add: a fresh database; /add with every kind of VALUE strconv.ParseFloat
\* accepts (negative, zero, positive) and /del; every loop started queries the
\* registry in its first pass, the exchange does not answer it and no ticker
\* fires before the loop is cancelled
AddValues == {-5, 0, 5, 1000}

InitAdd == InitOver(EmptyFn, EmptyFn)

NextAdd ==
    \/ \E s \in Symbols, kind \in {"price", "pct"}, v \in AddValues :
           CmdAddAlert(1, s, kind, v, 1000)
    \/ \E id \in 1..MaxAlerts : CmdDelAlert(1, id)
    \/ \E l \in Loops : Poll(l)
    \/ \E l \in Loops : Fetch(l, 0)
    \/ \E l \in Loops : WaitDone(l)

SpecAdd == InitAdd /\ [][NextAdd]_vars

\* -- closes: the bot starts over a database holding one open call of user 1,
\* long or short, entered at 100.0, whole or already reduced to 60; /ccall
\* closes all or part of it at 89.0, 100.0 or 110.0; the UPDATE statements
\* succeed or fail; the monitor takes no step
ClosePrices == {890, 1000, 1100}
CloseRows ==
    {[NoCall EXCEPT !.id = 1, !.user = 1, !.sym = 1, !.dir = dir, !.entry = 1000,
                    !.size = z, !.dep = dep, !.status = "open"]
        : dir \in Directions, dep \in DepValues, z \in {FullSize, 60 * SizeUnit}}

InitClose == \E c \in CloseRows : InitOver(EmptyFn, 1 :> c)

NextClose ==
    \/ \E sz \in CloseSizes, p \in ClosePrices : CmdCloseCall(1, 1, sz, p)
    \/ CC_Read(0)
    \/ CC_GetDeposit(0, TRUE)
    \/ \E ok \in BOOLEAN : CC_UpdDeposit(0, ok)
    \/ \E ok \in BOOLEAN : CC_Update(0, ok)
    \/ CmdCloseCallDone

SpecClose == InitClose /\ [][NextClose]_vars

\* -- retries: the bot starts over a database holding a price alert at 99.0
\* or a long call entered at 100.0 with stop-loss 99.5, or both; the price is
\* 100.0 or 99.0 when the loop first sees it and 99.0 from then on; the
\* statements of the store fail in any pass but the last one the loop makes,
\* Telegram delivers; the goroutine of the loop is scheduled and its ticker
\* fires (weak fairness); no command arrives
RetryAlerts == {EmptyFn, 1 :> [NoAlert EXCEPT !.id = 1, !.chat = 1, !.sym = 1, !.tprice = 990]}
RetryCalls ==
    {EmptyFn} \cup
    {1 :> [NoCall EXCEPT !.id = 1, !.user = 1, !.sym = 1, !.dir = "long", !.entry = 1000,
                         !.size = FullSize, !.dep = dep, !.sl = 995, !.status = "open"]
        : dep \in DepValues}

InitRetry ==
    \E al \in RetryAlerts, cl \in RetryCalls :
        /\ GetAllSymbols(al, cl) # <<>>
        /\ InitOver(al, cl)

NextRetry ==
    \/ \E l \in Loops : Poll(l)
    \/ \E l \in Loops : Fetch(l, 990)
    \/ \E l \in Loops : lastPriceBy[l] = EmptyFn /\ Fetch(l, 1000)
    \/ \E l \in Loops : WaitTick(l)
    \/ \E l \in Loops : HandlerRead(l)
    \/ \E l \in Loops : CA_Read(l)
    \/ \E l \in Loops : CA_Eval(l)
    \/ \E l \in Loops, ok \in BOOLEAN : (ok \/ polls[l] < MaxPolls) /\ CA_Log(l, ok)
    \/ \E l \in Loops : CA_Reply(l, TRUE)
    \/ \E l \in Loops, ok \in BOOLEAN : (ok \/ polls[l] < MaxPolls) /\ CA_Delete(l, ok)
    \/ \E l \in Loops : SC_Base(l, 0)
    \/ \E l \in Loops : SL_Eval(l)
    \/ \E l \in Loops : SL_After(l, TRUE)
    \/ \E l \in Loops : CC_Read(l)
    \/ \E l \in Loops : CC_GetDeposit(l, TRUE)
    \/ \E l \in Loops, ok \in BOOLEAN : (ok \/ polls[l] < MaxPolls) /\ CC_UpdDeposit(l, ok)
    \/ \E l \in Loops, ok \in BOOLEAN : (ok \/ polls[l] < MaxPolls) /\ CC_Update(l, ok)

SpecRetry == InitRetry /\ [][NextRetry]_vars /\ WF_vars(NextRetry)

\* -- stop-loss under commands: the bot starts over a database holding one open
\* long call entered at 100.0 with stop-loss 99.5 and no deposit share; the
\* exchange answers 99.0; while the loop evaluates, the owner removes the
\* stop-loss (/sl ID 0), lowers it to 98.0 or closes 40 of the call at 100.0
StopCommands == {0, 980}
StopCall == [NoCall EXCEPT !.id = 1, !.user = 1, !.sym = 1, !.dir = "long", !.entry = 1000,
                           !.size = FullSize, !.sl = 995, !.status = "open"]

InitStops == InitOver(EmptyFn, 1 :> StopCall)

NextStops ==
    \/ \E v \in StopCommands : CmdSetStopLoss(1, 1, v)
    \/ CmdCloseCall(1, 1, 40 * SizeUnit, 1000)
    \/ CmdCloseCallDone
    \/ \E l \in Loops : Poll(l)
    \/ \E l \in Loops : Fetch(l, 990)
    \/ \E l \in Loops : WaitTick(l)
    \/ \E l \in Loops : HandlerRead(l)
    \/ \E l \in Loops : CA_Read(l)
    \/ \E l \in Loops : CA_Eval(l)
    \/ \E l \in Loops : SC_Base(l, 0)
    \/ \E l \in Loops : SL_Eval(l)
    \/ \E l \in Loops : SL_After(l, TRUE)
    \/ \E t \in Threads : CC_Read(t)
    \/ \E t \in Threads : CC_Update(t, TRUE)

SpecStops == InitStops /\ [][NextStops]_vars

\* -- racing closes: the bot starts over a database holding one open long call
\* of user 1 entered at 100.0 with stop-loss 99.5 and half the deposit; the
\* exchange answers 99.0 to the loop and to /ccall; the owner closes the whole
\* call by command while the loop evaluates; store and Telegram do not fail
RaceCall == [NoCall EXCEPT !.id = 1, !.user = 1, !.sym = 1, !.dir = "long", !.entry = 1000,
                           !.size = FullSize, !.dep = 50, !.sl = 995, !.status = "open"]

InitRace == InitOver(EmptyFn, 1 :> RaceCall)

NextRace ==
    \/ CmdCloseCall(1, 1, 0, 990)
    \/ CmdCloseCallDone
    \/ \E l \in Loops : Poll(l)
    \/ \E l \in Loops : Fetch(l, 990)
    \/ \E l \in Loops : WaitTick(l)
    \/ \E l \in Loops : HandlerRead(l)
    \/ \E l \in Loops : CA_Read(l)
    \/ \E l \in Loops : CA_Eval(l)
    \/ \E l \in Loops : SC_Base(l, 0)
    \/ \E l \in Loops : SL_Eval(l)
    \/ \E l \in Loops : SL_After(l, TRUE)
    \/ \E t \in Threads : CC_Read(t)
    \/ \E t \in Threads : CC_GetDeposit(t, TRUE)
    \/ \E t \in Threads : CC_UpdDeposit(t, TRUE)
    \/ \E t \in Threads : CC_Update(t, TRUE)

SpecRace == InitRace /\ [][NextRace]_vars

\* -- sharp changes around a restart: the bot starts over a database holding
\* one alert of chat 1 far from the market; the price is 102.0, the historical
\* price lookup answers 100.0 or fails, the clock runs; /add of another far
\* alert restarts the monitoring while the loop running may be anywhere in its
\* pass, so that two loops evaluate the symbol side by side
InitSharpRace == InitOver(1 :> FarAlert, EmptyFn)

NextSharpRace ==
    \/ CmdAddAlert(1, 1, "price", 2000, 1000)
    \/ AdvanceTime
    \/ \E l \in Loops : Poll(l)
    \/ \E l \in Loops : Fetch(l, 1020)
    \/ \E l \in Loops : WaitTick(l)
    \/ \E l \in Loops : WaitDone(l)
    \/ \E l \in Loops : HandlerRead(l)
    \/ \E l \in Loops : CA_Read(l)
    \/ \E l \in Loops : CA_Eval(l)
    \/ \E l \in Loops, h \in Outcomes(HistPrices) : SC_Base(l, h)
    \/ \E l \in Loops : SC_Check(l)
    \/ \E l \in Loops : SC_Read(l)
    \/ \E l \in Loops : SC_Notify(l, 1, TRUE, TRUE)
    \/ \E l \in Loops : SL_Eval(l)

SpecSharpRace == InitSharpRace /\ [][NextSharpRace]_vars

\* -- /rush: the bot starts over a database holding two open calls entered at
\* 100.0: a long one of user 1 and a short one of user 1 or 2; user 1 may
\* close 40 of the first with /ccall and then sends /rush, or user 2 does; the
\* price is 89.0, 100.0 or 110.0 or the fetch fails; the store works; the
\* monitor takes no step
RushRows ==
    {1 :> [NoCall EXCEPT !.id = 1, !.user = 1, !.sym = 1, !.dir = "long", !.entry = 1000,
                         !.size = FullSize, !.dep = dep, !.status = "open"]
     @@ 2 :> [NoCall EXCEPT !.id = 2, !.user = u, !.sym = 2, !.dir = "short", !.entry = 1000,
                            !.size = FullSize, !.dep = 0, !.status = "open"]
        : dep \in DepValues, u \in Users}

InitRush == \E cl \in RushRows : InitOver(EmptyFn, cl)

NextRush ==
    \/ \E p \in ClosePrices : CmdCloseCall(1, 1, 40 * SizeUnit, p)
    \/ CmdCloseCallDone
    \/ \E u \in Users : CmdRush(u)
    \/ \E p \in Outcomes(ClosePrices) : RushFetch(p)
    \/ RushAfter
    \/ RushReply
    \/ CC_Read(0)
    \/ CC_GetDeposit(0, TRUE)
    \/ CC_UpdDeposit(0, TRUE)
    \/ CC_Update(0, TRUE)

SpecRush == InitRush /\ [][NextRush]_vars

\* -- restarts: the bot starts over a database holding one open call of user
\* 1 entered at 100.0; /ccall closes it whole or 40 of it at 89.0, 100.0 or
\* 110.0; the process is stopped and started again at any point; the store
\* works; the monitor takes no step
InitRestart ==
    \E dir \in Directions, dep \in DepValues :
        InitOver(EmptyFn, 1 :> [NoCall EXCEPT !.id = 1, !.user = 1, !.sym = 1, !.dir = dir,
                                              !.entry = 1000, !.size = FullSize, !.dep = dep,
                                              !.status = "open"])

NextRestart ==
    \/ \E sz \in {0, 40 * SizeUnit}, p \in ClosePrices : CmdCloseCall(1, 1, sz, p)
    \/ CmdCloseCallDone
    \/ CC_Read(0)
    \/ CC_GetDeposit(0, TRUE)
    \/ CC_UpdDeposit(0, TRUE)
    \/ CC_Update(0, TRUE)
    \/ Restart

SpecRestart == InitRestart /\ [][NextRestart]_vars

\* -- rejections: the database holds a long call of user 1 entered at 100.0
\* with stop-loss 99.5, open with size 100 or 60, or closed; CloseCall and
\* UpdateStopLoss are run for call 1 or an id no call has, for user 1 or 2,
\* with the sizes -1, 0, 40, 100 and the stop-losses 0 and 98.0; the price is
\* 99.0; the store works; the monitor takes no step
RejectSizes == {0 - SizeUnit, 0, 40 * SizeUnit, FullSize}
RejectRows ==
    {[NoCall EXCEPT !.id = 1, !.user = 1, !.sym = 1, !.dir = "long", !.entry = 1000,
                    !.size = z, !.dep = dep, !.sl = 995, !.status = "open"]
        : dep \in DepValues, z \in {FullSize, 60 * SizeUnit}}
    \cup {[NoCall EXCEPT !.id = 1, !.user = 1, !.sym = 1, !.dir = "long", !.entry = 1000,
                         !.size = 0, !.dep = 50, !.sl = 995, !.status = "closed",
                         !.exit = 1010, !.pnl = 100, !.closedAt = TRUE]}

InitReject == \E c \in RejectRows : InitOver(EmptyFn, 1 :> c)

NextReject ==
    \/ \E id \in {1, 2}, u \in Users, sz \in RejectSizes : CallCloseCall(id, u, 990, sz)
    \/ \E id \in {1, 2}, u \in Users, v \in {0, 980} : CallUpdateStopLoss(id, u, v)
    \/ CC_Read(0)
    \/ CC_GetDeposit(0, TRUE)
    \/ CC_UpdDeposit(0, TRUE)
    \/ CC_Update(0, TRUE)
    \/ CmdCloseCallDone

SpecReject == InitReject /\ [][NextReject]_vars

\* -- deletions: the database holds one or two price alerts, each of chat 1 or
\* 2; DeleteByID is run for chat 1 or 2 and id 1, 2 or 3 (no alert has id 3);
\* its DELETE succeeds or fails; the monitor takes no step
DeleteRows ==
    {1 :> [FarAlert EXCEPT !.id = 1, !.chat = c1] : c1 \in Users}
    \cup {1 :> [FarAlert EXCEPT !.id = 1, !.chat = c1]
          @@ 2 :> [FarAlert EXCEPT !.id = 2, !.chat = c2, !.sym = 2] : c1, c2 \in Users}

InitDelete == \E al \in DeleteRows : InitOver(al, EmptyFn)

NextDelete ==
    \E chat \in Users, id \in 1..(MaxAlerts + 1), okExec \in BOOLEAN :
        CallDeleteByID(chat, id, okExec)

SpecDelete == InitDelete /\ [][NextDelete]_vars

\* -- reminders: the bot starts over an empty database; /remind asks for up to
\* MaxReminders reminders due at once, in 5 or in 10 minutes, the INSERT
\* succeeding or failing; the process is stopped and started again at any
\* point; time passes whether it runs or not. The goroutines of the scheduler
\* and the timers of the Go runtime are scheduled, the clock goes on and a
\* stopped process is started again (weak fairness); nothing forces a stop or
\* a /remind
RemindDurations == {0, 5, 10}

InitRemind == InitOver(EmptyFn, EmptyFn)

NextRemind ==
    \/ \E dur \in RemindDurations, ok \in BOOLEAN : CmdRemind(dur, ok)
    \/ StartLoad
    \/ StartSchedule
    \/ Sweep
    \/ \E k \in 1..(2 * MaxReminders) : TimerSend(k)
    \/ \E k \in 1..(2 * MaxReminders) : TimerDelete(k)
    \/ \E k \in 1..(2 * MaxReminders) : TimerUnmap(k)
    \/ TimePasses
    \/ ProcessStop
    \/ ProcessStart

SpecRemind ==
    /\ InitRemind
    /\ [][NextRemind]_vars
    /\ WF_vars(StartLoad)
    /\ WF_vars(StartSchedule)
    /\ WF_vars(Sweep)
    /\ WF_vars(\E k \in 1..(2 * MaxReminders) : TimerSend(k))
    /\ WF_vars(\E k \in 1..(2 * MaxReminders) : TimerDelete(k))
    /\ WF_vars(\E k \in 1..(2 * MaxReminders) : TimerUnmap(k))
    /\ WF_vars(TimePasses)
    /\ WF_vars(ProcessStart)

\* ----------------------------------------------------------------- claims
Triggering == {"ca_log", "ca_reply", "ca_delete"}
HandlerPcs == {"h_read", "ca_read", "ca_eval", "ca_log", "ca_reply", "ca_delete",
               "sc_base", "sc_check", "sc_read", "sc_notify", "sl_eval",
               "cc_read", "cc_getdep", "cc_upddep", "cc_update", "sl_after"}

C2_AtMostOnce ==
    \A i \in 1..MaxAlerts : notified[i] <= 1 /\ triggers[i] <= 1

\* C3: whenever checkAlerts has evaluated a price p for a percent alert with
\* base B > 0 and target T, the alert is triggered exactly when the move from B
\* to p is at least T for T > 0, at most T for T < 0
C3_PercentDirection ==
    \A l \in Loops :
        (ev[l].a.tprice = 0 /\ ev[l].a.tpct # 0 /\ ev[l].a.base > 0) =>
            /\ (pc[l] \in Triggering) <=> (ev[l].kind # "none")
            /\ (ev[l].kind # "none") <=>
                   \/ ev[l].a.tpct > 0
                      /\ (ev[l].price - ev[l].a.base) * 1000 >= ev[l].a.tpct * ev[l].a.base
                   \/ ev[l].a.tpct < 0
                      /\ (ev[l].price - ev[l].a.base) * 1000 <= ev[l].a.tpct * ev[l].a.base

\* a percent alert of -0.5 % from base 100.0 notified at 99.5
C3_Witness ==
    \E l \in Loops :
        /\ pc[l] = "ca_delete"
        /\ ev[l].a.tpct = -5
        /\ ev[l].a.base = 1000
        /\ ev[l].price = 995
        /\ notified[ev[l].a.id] > 0

\* C4 as claimed, store failures set aside: once the handler's CloseCall for a
\* call whose stop-loss condition held has returned without a failed UPDATE,
\* the call is closed
C4_ClosesAtFirstHit ==
    \A l \in Loops :
        (pc[l] = "sl_after" /\ cc[l].ret # "store") =>
            calls[cc[l].id].status = "closed"

\* C5: the count of stop-loss notifications of a call grows only in the step
\* after a CloseCall of the handler for that call and the price of this tick
\* returned nil, and by one; after a CloseCall that returned an error the
\* handler moves on without notifying
C5_NotifyOnlyOnSuccess ==
    [][/\ \A c \in 1..MaxCalls :
              slNotified'[c] # slNotified[c] =>
                  /\ slNotified'[c] = slNotified[c] + 1
                  /\ \E l \in Loops :
                         /\ pc[l] = "sl_after"
                         /\ cc[l].id = c
                         /\ cc[l].ret = "ok"
                         /\ cc[l].exit = cur[l].price
       /\ \A l \in Loops :
              (pc[l] = "sl_after" /\ cc[l].ret # "ok" /\ pc'[l] # "sl_after") =>
                  slNotified' = slNotified]_vars

\* a stop-loss close that succeeded and was notified
C5_Witness ==
    \E c \in DOMAIN calls : slNotified[c] = 1 /\ calls[c].status = "closed"

\* C6: the UPDATE of a CloseCall that read remaining size z and was asked to
\* close s has 0 < s <= z and writes size z - s and status open when
\* z - s >= 0.001, and size 0, status closed and a close timestamp otherwise
C6_CloseArithmetic ==
    [][\A t \in Threads :
           (pc[t] = "cc_update" /\ pc'[t] # "cc_update" /\ cc'[t].ret = "ok") =>
               LET z == cc[t].z
                   s == cc[t].size
                   row == calls'[cc[t].id]
               IN /\ 0 < s
                  /\ s <= z
                  /\ IF z - s >= 2
                     THEN row.size = z - s /\ row.status = "open" /\ ~row.closedAt
                     ELSE row.size = 0 /\ row.status = "closed" /\ row.closedAt]_vars

\* size 100 closed by 40, then the remaining 60 closed: size 0, closed
C6_Witness ==
    \E t \in Threads, c \in DOMAIN calls :
        /\ cc[t].id = c
        /\ cc[t].ret = "ok"
        /\ cc[t].z = 60 * SizeUnit
        /\ cc[t].size = 60 * SizeUnit
        /\ calls[c].size = 0
        /\ calls[c].status = "closed"
        /\ calls[c].closedAt

\* C7 as claimed: a closed call stays closed with size 0
C7_ClosedStaysClosed ==
    [][\A c \in DOMAIN calls :
           calls[c].status = "closed" =>
               calls'[c].status = "closed" /\ calls'[c].size = 0]_vars

\* C8: every call's size is within [0, 100], and a call that no CloseCall has
\* touched has size 100 whatever size the command passed in
C8_SizeRange ==
    \A c \in DOMAIN calls :
        /\ calls[c].size >= 0
        /\ calls[c].size <= FullSize
        /\ calls[c].exit = 0 => calls[c].size = FullSize

\* a call partially closed, 60 of 100 remaining
C8_Witness ==
    \E c \in DOMAIN calls : calls[c].size = 60 * SizeUnit /\ calls[c].status = "open"

C10_OneLoopEvaluates ==
    Cardinality({l \in Loops : pc[l] \in HandlerPcs}) <= 1


\* C11: the trigger-log insert, the notification and the delete of a
\* triggering evaluation take effect together: once checkAlerts is past its
\* delete step, a notified alert is gone from the store and has a trigger-log
\* record
C11_AllOrNothing ==
    \A i \in 1..MaxAlerts :
        (/\ notified[i] > 0
         /\ ~\E l \in Loops : pc[l] = "ca_delete" /\ ev[l].a.id = i)
        => (i \notin DOMAIN alerts /\ triggers[i] > 0)

\* the balance GetUserDeposit reports for a user: the stored current deposit,
\* or the initial deposit of the row it creates for a user without one
Balance(dp, u) == IF u \in DOMAIN dp THEN dp[u].current ELSE InitialDeposit

\* C12: when CloseCall has returned an error (call not found, invalid size,
\* store failure) the call is still open with the size CloseCall read and the
\* owner's balance is the one CloseCall read
C12_ErrorLeavesPosition ==
    \A t \in Threads :
        (pc[t] = Return(t) /\ cc[t].ret \in {"notfound", "size", "store"})
        => /\ cc[t].ret = "store"
              => (calls[cc[t].id].status = "open" /\ calls[cc[t].id].size = cc[t].z)
           /\ cc[t].current # 0 => Balance(deposits, cc[t].user) = cc[t].current

\* C13: for one symbol the stored last sharp-change alert is rewritten only
\* when there was none or the last one is at least 5 minutes old, every
\* sharp-change notification comes from the evaluation that has just rewritten
\* it, and when that evaluation found a last alert younger than the lookback
\* window (15 minutes) its change is measured from the price stored there
C13_CooldownAndRebase ==
    [][\A s \in Symbols :
         LET had == s \in DOMAIN lastSharpChangeAlert
             last == lastSharpChangeAlert[s]
             rewritten == /\ s \in DOMAIN lastSharpChangeAlert'
                          /\ (~had \/ lastSharpChangeAlert'[s] # last)
         IN /\ rewritten =>
                 /\ had => now - last.Time >= 5
                 /\ lastSharpChangeAlert'[s].Time = now
                 /\ \E l \in Loops :
                        /\ pc[l] = "sc_check" /\ pc'[l] = "sc_read" /\ cur[l].sym = s
                        /\ lastSharpChangeAlert'[s].Price = cur[l].price
                        /\ (had /\ now - last.Time < 15) => sc[l].old = last.Price
            /\ (\E u \in Users : sharpSent'[s][u] # sharpSent[s][u]) =>
                 /\ had
                 /\ last.Time = now
                 /\ \E l \in Loops : pc[l] = "sc_notify" /\ cur[l].sym = s
                                     /\ last.Price = cur[l].price
    ]_vars

\* a second notification for a symbol is being sent, its change measured from
\* the price recorded at the first one
C13_Witness ==
    \E l \in Loops, u \in Users :
        /\ pc[l] = "sc_notify"
        /\ u \in sc[l].chats
        /\ sharpSent[cur[l].sym][u] = 1
        /\ sc[l].old = 1020
        /\ cur[l].price = 1041
        /\ now >= 5

\* C14: checkSharpChange takes as baseline the price stored at the symbol's
\* last sharp-change alert exactly when that alert is younger than the
\* lookback window (15 minutes), and then looks up no historical price;
\* otherwise the baseline is the historical price looked up, and when that
\* lookup fails nothing is sent and the sharp-change state stays as it was
C14_Baseline ==
    [][\A l \in Loops :
         (pc[l] = "sc_base" /\ pc'[l] # "sc_base") =>
            LET s == cur[l].sym
                had == s \in DOMAIN lastSharpChangeAlert
                last == lastSharpChangeAlert[s]
            IN IF had /\ now - last.Time < 15
               THEN /\ sc'[l].old = last.Price
                    /\ sc'[l].hist = 0
                    /\ ~sc'[l].err
               ELSE /\ sc'[l].old = sc'[l].hist
                    /\ sc'[l].err <=> sc'[l].hist = 0
                    /\ sc'[l].err =>
                          /\ pc'[l] = "sl_eval"
                          /\ lastSharpChangeAlert' = lastSharpChangeAlert
                          /\ sharpSent' = sharpSent
                          /\ sharpLog' = sharpLog
    ]_vars

\* the last alert of the symbol is as old as the lookback window and the
\* evaluation measures from the historical price
C14_Witness ==
    \E l \in Loops :
        /\ pc[l] = "sc_check"
        /\ cur[l].sym \in DOMAIN lastSharpChangeAlert
        /\ now - lastSharpChangeAlert[cur[l].sym].Time >= 15
        /\ lastSharpChangeAlert[cur[l].sym].Price = 1020
        /\ sc[l].old = 1000

C17_FirstSourceWins ==
    LET r == gw.res
        unpreferred == ~\E i \in 1..4 : /\ gw.exchange = Sources[i].exchange
                                        /\ gw.market = Sources[i].market
        answering == {i \in 1..4 : gw.ok[i]}
    IN /\ (gw.fn = "info" \/ (gw.fn = "hist" /\ unpreferred)) =>
            /\ r.err <=> answering = {}
            /\ r.err => r.tried = <<1, 2, 3, 4>>
            /\ ~r.err =>
                 /\ r.src \in answering
                 /\ \A i \in answering : r.src <= i
                 /\ r.tried = [k \in 1..r.src |-> k]
                 /\ r.price = 1000 + r.src
                 /\ r.exchange = (IF r.src <= 2 THEN "Bitget" ELSE "Bybit")
                 /\ r.market = (IF r.src \in {1, 3} THEN "spot" ELSE "futures")
       /\ (gw.fn = "hist" /\ ~unpreferred) =>
            /\ r.err <=> \A k \in 1..5 : ~gw.ok[k]
            /\ r.err => {r.tried[k] : k \in 1..Len(r.tried)} = {1, 2, 3, 4}

\* FetchPriceInfo found both Bitget markets failing and took the price of
\* Bybit spot although Bybit futures answers too
C17_Witness ==
    /\ gw.fn = "info"
    /\ ~gw.ok[1] /\ ~gw.ok[2] /\ gw.ok[3] /\ gw.ok[4]
    /\ gw.res.exchange = "Bybit"
    /\ gw.res.market = "spot"

\* C18: with a preferred source FetchHistoricalPrice queries that source
\* first; when it answers, its price is returned and nothing else is queried,
\* even if Bitget spot would answer; when it fails, the four sources are
\* queried in the fixed order and the first that answers gives the price
C18_PreferredFirst ==
    \A p \in 1..4 :
        (/\ gw.fn = "hist"
         /\ gw.exchange = Sources[p].exchange
         /\ gw.market = Sources[p].market) =>
            LET r == gw.res
                later == {i \in 1..4 : gw.ok[i + 1]}
            IN /\ r.tried[1] = p
               /\ gw.ok[1] => /\ ~r.err
                              /\ r.src = p
                              /\ r.price = 1000 + p
                              /\ r.tried = <<p>>
               /\ (~gw.ok[1] /\ later # {}) =>
                     /\ ~r.err
                     /\ r.src \in later
                     /\ \A i \in later : r.src <= i
                     /\ r.price = 1000 + r.src
                     /\ r.tried = <<p>> \o [k \in 1..r.src |-> k]
               /\ (~gw.ok[1] /\ later = {}) => r.err

\* Bybit futures was preferred and answered: its price is returned although
\* Bitget spot would have answered as well
C18_Witness ==
    /\ gw.fn = "hist"
    /\ gw.exchange = "Bybit"
    /\ gw.market = "futures"
    /\ gw.ok[1]
    /\ gw.ok[2]
    /\ gw.res.src = 4
    /\ gw.res.price = 1004

\* C19: a failed price fetch in a pass touches only its symbol: the cache of
\* the loop, the store and the notifications stay as they were, the handler is
\* not entered, and the pass goes on with the remaining symbols (or ends and
\* the loop waits for the ticker); the fetches of the other symbols are cached,
\* and evaluated when a previous price is cached, whatever failed before them
C19_FailureIsLocal ==
    [][\A l \in Loops :
         (pc[l] = "fetch" /\ cur'[l] # cur[l]) =>
            LET sym == Head(todo[l])
                rest == Tail(todo[l])
            IN /\ cur'[l].sym = sym
               /\ cur'[l].price = 0 =>
                    /\ lastPriceBy'[l] = lastPriceBy[l]
                    /\ todo'[l] = rest
                    /\ pc'[l] = (IF rest = <<>> THEN "wait" ELSE "fetch")
                    /\ <<alerts, calls, deposits, triggers, sharpLog, notified,
                         slNotified, sharpSent, lastSharpChangeAlert>>'
                       = <<alerts, calls, deposits, triggers, sharpLog, notified,
                           slNotified, sharpSent, lastSharpChangeAlert>>
               /\ cur'[l].price # 0 =>
                    /\ lastPriceBy'[l][sym] = cur'[l].price
                    /\ \A s \in DOMAIN lastPriceBy[l] \ {sym} :
                           lastPriceBy'[l][s] = lastPriceBy[l][s]
                    /\ (sym \in DOMAIN lastPriceBy[l] /\ lastPriceBy[l][sym] # 0)
                       => (pc'[l] = "h_read" /\ todo'[l] = todo[l])
    ]_vars

\* the fetch for symbol 1 has failed, its cached price is still the one of
\* the pass before, and the pass goes on with symbol 2
C19_Witness ==
    \E l \in Loops :
        /\ pc[l] = "fetch"
        /\ cur[l].sym = 1
        /\ cur[l].price = 0
        /\ cur[l].prev # 0
        /\ lastPriceBy[l][1] = cur[l].prev
        /\ todo[l] = <<2>>

\* C20: the first successful fetch of a symbol in a monitor instance, with no
\* price cached for it, stores the price and does not enter the handler; a
\* successful fetch of a symbol with a cached price enters the handler
C20_FirstObservation ==
    [][\A l \in Loops :
         (pc[l] = "fetch" /\ cur'[l] # cur[l] /\ cur'[l].price # 0) =>
            LET sym == Head(todo[l])
            IN /\ lastPriceBy'[l][sym] = cur'[l].price
               /\ IF sym \in DOMAIN lastPriceBy[l]
                  THEN pc'[l] = "h_read"
                  ELSE /\ pc'[l] \in {"fetch", "wait"}
                       /\ todo'[l] = Tail(todo[l])
                       /\ <<alerts, calls, deposits, triggers, notified, slNotified,
                            sharpSent, sharpLog>>'
                          = <<alerts, calls, deposits, triggers, notified, slNotified,
                              sharpSent, sharpLog>>
    ]_vars

\* a first price has been fetched for a symbol: it is cached and the loop is
\* not in the handler
C20_Witness ==
    \E l \in Loops :
        /\ pc[l] \in {"fetch", "wait"}
        /\ cur[l].sym # 0
        /\ cur[l].price # 0
        /\ cur[l].prev = 0
        /\ cur[l].sym \in DOMAIN lastPriceBy[l]
        /\ lastPriceBy[l][cur[l].sym] = cur[l].price
        /\ cur[l].ran = {}

\* C21: once its context is cancelled a loop starts no further poll pass and
\* uses no fetched price: it neither takes the ticker branch of Run nor
\* enters the handler with the result of a fetch
C21_StopsAtCancel ==
    [][\A l \in Loops :
         ctxDone[l] =>
            /\ ~(pc[l] = "wait" /\ pc'[l] = "poll")
            /\ ~(pc[l] = "fetch" /\ pc'[l] = "h_read")
    ]_vars

\* C22: the cache of a loop holds prices only for symbols of the set the
\* registry returned for the pass: the head of a pass leaves in the cache only
\* symbols of that set (none when the set is empty), and a fetch adds only the
\* symbol fetched, which is of that set
C22_CachePruned ==
    [][\A l \in Loops :
         /\ (pc[l] = "poll" /\ pc'[l] # "poll") =>
               LET symbols == IF pc'[l] = "fetch" THEN todo'[l] ELSE <<>>
               IN DOMAIN lastPriceBy'[l] \subseteq {symbols[k] : k \in 1..Len(symbols)}
         /\ (pc[l] = "fetch" /\ cur'[l] # cur[l]) =>
               DOMAIN lastPriceBy'[l] \subseteq DOMAIN lastPriceBy[l] \cup {Head(todo[l])}
    ]_vars

\* C23: a user's balance changes only in the deposit update of a CloseCall on
\* a call with deposit-percent > 0 (no command, no alert step and no other
\* store step changes it), and a CloseCall that returns an error leaves the
\* balance it read in place
C23_BalanceFrame ==
    [][/\ \A u \in Users :
              Balance(deposits', u) # Balance(deposits, u) =>
                  \E t \in Threads :
                      /\ pc[t] = "cc_upddep"
                      /\ pc'[t] = "cc_update"
                      /\ cc[t].user = u
                      /\ cc[t].dep > 0
       /\ \A t \in Threads :
              (pc[t] = "cc_update" /\ pc'[t] = Return(t) /\ cc'[t].ret # "ok"
                  /\ cc[t].current # 0) =>
                  Balance(deposits', cc[t].user) = cc[t].current
    ]_vars

\* C24: a GetUserDeposit that succeeds for a user without a record creates the
\* record with initial = current = 100 and returns (100, 100); for a user
\* with a record it returns the stored pair and leaves the table as it is; and
\* no step, UpdateUserDeposit included, removes a record or changes its
\* initial balance
C24_DepositRecord ==
    [][/\ (depCall' # depCall /\ depCall'.fn = "get" /\ ~depCall'.err) =>
              LET u == depCall'.user
              IN IF u \in DOMAIN deposits
                 THEN /\ deposits' = deposits
                      /\ depCall'.initial = deposits[u].initial
                      /\ depCall'.current = deposits[u].current
                 ELSE /\ deposits' = Put(deposits, u, [initial |-> 10000, current |-> 10000])
                      /\ depCall'.initial = 10000
                      /\ depCall'.current = 10000
       /\ \A u \in DOMAIN deposits :
              /\ u \in DOMAIN deposits'
              /\ deposits'[u].initial = deposits[u].initial
    ]_vars

\* GetUserDeposit returned (100, 99.50): the record created by the first
\* reference, rewritten by UpdateUserDeposit and read again
C24_Witness ==
    /\ depCall = [fn |-> "get", user |-> 1, initial |-> 10000, current |-> 9950,
                  err |-> FALSE]
    /\ deposits[1] = [initial |-> 10000, current |-> 9950]

\* C25 as claimed: every stored alert has exactly one active condition, a
\* target price > 0 with target percent 0, or a target percent # 0 with a
\* base price > 0 and target price 0
C25_OneCondition ==
    \A i \in DOMAIN alerts :
        \/ alerts[i].tprice > 0 /\ alerts[i].tpct = 0
        \/ alerts[i].tpct # 0 /\ alerts[i].base > 0 /\ alerts[i].tprice = 0

\* C26: the UPDATE of a CloseCall that returns nil writes the exit price the
\* caller passed and, as realized percent, the move from the entry price to
\* that exit price in percent of the entry price, taken upwards for a long call
\* and downwards for a short call, whatever size is closed
C26_RealizedPercent ==
    [][\A t \in Threads :
           (pc[t] = "cc_update" /\ pc'[t] = Return(t) /\ cc'[t].ret = "ok") =>
               LET old == calls[cc[t].id]
                   row == calls'[cc[t].id]
               IN /\ row.exit = cc[t].exit
                  /\ row.dir = "long" => row.pnl * old.entry = (cc[t].exit - old.entry) * 10000
                  /\ row.dir = "short" => row.pnl * old.entry = (old.entry - cc[t].exit) * 10000
                  /\ row.entry = old.entry
                  /\ row.dir = old.dir
    ]_vars

\* a long call entered at 100.0 and closed in part (40 of 100) at 89.0
\* records -11.00 %
C26_Witness ==
    /\ cc[0].ret = "ok"
    /\ cc[0].size = 40 * SizeUnit
    /\ calls[1].dir = "long"
    /\ calls[1].entry = 1000
    /\ calls[1].exit = 890
    /\ calls[1].pnl = -1100
    /\ calls[1].size = 60 * SizeUnit

\* C27 as claimed: whenever the registry is not empty a polling loop whose
\* context is not cancelled is running, or comes to run without a further
\* command having to arrive
C27_RegistryIsPolled ==
    (GetAllSymbols(alerts, calls) # <<>>)
        ~> (\E l \in Loops : pc[l] \notin {"idle", "stopped"} /\ ~ctxDone[l])

\* C28: with the condition still holding and the store working again in a
\* later tick, a stop-loss close whose UPDATE failed is followed by the call
\* being closed and its owner notified, and an alert that was notified and
\* whose delete failed is followed by the alert being deleted; nothing but
\* the next passes of the loop brings this about
C28_ImplicitRetry ==
    /\ (\E l \in Loops : pc[l] = "sl_after" /\ cc[l].ret = "store")
           ~> (calls # EmptyFn /\ calls[1].status = "closed" /\ slNotified[1] > 0)
    /\ (notified[1] > 0 /\ alerts # EmptyFn /\ \A l \in Loops : pc[l] # "ca_delete")
           ~> (alerts = EmptyFn /\ notified[1] > 0)

\* the call was closed and notified by the pass after the one whose UPDATE
\* failed (the deposit was debited by both), and the alert deleted by the pass
\* after the one whose delete failed (it was notified by both)
C28_Witness ==
    /\ calls # EmptyFn
    /\ calls[1].status = "closed"
    /\ slNotified[1] = 1
    /\ Balance(deposits, 1) = 9900
    /\ alerts = EmptyFn
    /\ notified[1] = 2

\* C29: a loop makes its first pass before it waits for a tick (it never waits
\* with no pass made), a pass starts only on entry or on a tick and is counted
\* once, a loop leaves its passes only into the select of Run and the select
\* only by a tick or by cancellation; a pass for which the registry is empty
\* fetches no price, runs no handler, changes nothing in the store or the
\* cache, sends nothing, and ends in the select with the loop still running
C29_PassPerTick ==
    [][\A l \in Loops :
           /\ pc[l] = "wait" => polls[l] >= 1
           /\ (pc'[l] = "poll" /\ pc[l] # "poll") => pc[l] \in {"idle", "stopped", "wait"}
           /\ polls'[l] # polls[l] =>
                  \/ pc[l] = "poll" /\ polls'[l] = polls[l] + 1
                  \/ pc[l] \in {"idle", "stopped"} /\ pc'[l] = "poll" /\ polls'[l] = 0
           /\ (pc[l] = "poll" /\ pc'[l] # "poll") => polls'[l] = polls[l] + 1
           /\ (pc[l] = "wait" /\ pc'[l] # "wait") =>
                  \/ pc'[l] = "poll"
                  \/ pc'[l] = "stopped" /\ ctxDone[l]
           /\ (pc'[l] = "stopped" /\ pc[l] # "stopped") => (pc[l] = "wait" /\ ctxDone[l])
           /\ (pc[l] = "poll" /\ pc'[l] # "poll" /\ GetAllSymbols(alerts, calls) = <<>>) =>
                  /\ pc'[l] = "wait"
                  /\ cur'[l] = NoCur
                  /\ UNCHANGED <<storeVars, outVars, lastSharpChangeAlert, ctxDone,
                                 lastPriceBy, todo, alertsL, callsL, cc>>
    ]_vars

\* the loop is back in the select after a pass, not its first, that found the
\* registry empty and fetched nothing
C29_Witness ==
    \E l \in Loops :
        /\ pc[l] = "wait"
        /\ polls[l] > 1
        /\ cur[l] = NoCur
        /\ ~ctxDone[l]
        /\ GetAllSymbols(alerts, calls) = <<>>

\* C30 as claimed: when the CloseCall of a stop-loss check writes its UPDATE,
\* the stop-loss price the store holds for the call at that moment is > 0 and
\* breached by the price of the tick, and the size closed is the whole size
\* the store holds at that moment
C30_CloseOnStoredState ==
    [][\A l \in Loops :
           (pc[l] = "cc_update" /\ pc'[l] = "sl_after" /\ cc'[l].ret = "ok") =>
               LET stored == calls[cc[l].id]
               IN /\ StopLossHit(stored, cc[l].exit)
                  /\ cc[l].size = stored.size
    ]_vars

\* C31 as claimed: with the whole call closed at 99.0 by the stop-loss check or
\* by /ccall, whichever comes first, and no CloseCall still running, the
\* owner's balance is the one a single close of the whole call leaves: the
\* adjustment of the call is applied once
C31_SerialBalance ==
    (/\ calls[1].status = "closed"
     /\ \A t \in Threads : pc[t] \notin {"cc_read", "cc_getdep", "cc_upddep", "cc_update"})
    => Balance(deposits, 1)
           = NewDeposit(InitialDeposit, calls[1].dep, FullSize, FullSize, calls[1].pnl)

\* C32 as claimed: a close of size s of a call with deposit-percent D adjusts
\* the balance it read with the weight D * s / 100, the share of the whole
\* position that is closed (so that the weights of closes that add up to the
\* whole call add up to D), whatever size remained when it ran
C32_WeightsSumToD ==
    [][\A t \in Threads :
           (pc[t] = "cc_getdep" /\ pc'[t] = "cc_upddep") =>
               cc'[t].newDep =
                   NewDeposit(cc'[t].current, cc[t].dep, cc[t].size, FullSize, cc[t].pnl)
    ]_vars

\* C33 as claimed: for an alert that was created and is no longer in the
\* store, no step adds a trigger-log record or delivers a notification
C33_SilentAfterDelete ==
    [][\A i \in 1..MaxAlerts :
           (i <= nextAlert /\ i \notin DOMAIN alerts) =>
               /\ triggers'[i] = triggers[i]
               /\ notified'[i] = notified[i]
    ]_vars

\* C34: whichever loops evaluate a symbol side by side, a loop enters the
\* notifying part of checkSharpChange only in a step that finds no last alert
\* of the symbol or one at least 5 minutes old and stamps the symbol with the
\* present time; at most one loop is in the notifying part for a symbol, the
\* stamp of the symbol is then the present time, and only such a loop sends:
\* the sends of two different stamps are at least 5 minutes apart
C34_EventsApart ==
    [][\A s \in Symbols :
         LET notifying == {l \in Loops : pc[l] \in {"sc_read", "sc_notify"} /\ cur[l].sym = s}
             entering == {l \in Loops : /\ pc[l] = "sc_check"
                                        /\ pc'[l] \in {"sc_read", "sc_notify"}
                                        /\ cur[l].sym = s}
         IN /\ Cardinality(notifying) <= 1
            /\ notifying # {} =>
                   (s \in DOMAIN lastSharpChangeAlert /\ lastSharpChangeAlert[s].Time = now)
            /\ entering # {} =>
                   /\ notifying = {}
                   /\ s \in DOMAIN lastSharpChangeAlert =>
                          now - lastSharpChangeAlert[s].Time >= SharpCooldownMin
                   /\ lastSharpChangeAlert'[s].Time = now
            /\ (\E u \in Users : sharpSent'[s][u] # sharpSent[s][u]) =>
                   \E l \in notifying : pc[l] = "sc_notify"
    ]_vars

\* a loop started by the restart has found the sharp change of the symbol
\* while the loop it replaced is still sending its notification of it
C34_Witness ==
    \E l1, l2 \in Loops :
        /\ l1 # l2
        /\ pc[l1] = "sc_notify" /\ cur[l1].sym = 1 /\ ctxDone[l1]
        /\ pc[l2] = "sc_check" /\ cur[l2].sym = 1 /\ ~ctxDone[l2]

\* C35: when /rush has replied, every price fetch of it succeeded and the
\* store worked, the user has no open call left, whatever the remaining sizes
\* of the calls were
C35_RushClosesAll ==
    [][(/\ pc[0] = "rush_reply" /\ pc'[0] = "idle"
        /\ \A k \in 1..Len(rush.failMessages) : rush.failMessages[k] # "price")
       => \A id \in DOMAIN calls' :
              calls'[id].user = rush.user => calls'[id].status # "open"
    ]_vars

\* C36: a call that is closed with size 0 is closed with size 0 in the next
\* state, whatever step is taken, a start of the process over the existing
\* database included
C36_ClosedStaysClosed ==
    [][\A id \in DOMAIN calls :
           (calls[id].status = "closed" /\ calls[id].size = 0) =>
               (calls'[id].status = "closed" /\ calls'[id].size = 0)
    ]_vars

\* the call (id, u) names exists, belongs to u and is open
Closable(id, u) == id \in DOMAIN calls /\ calls[id].user = u /\ calls[id].status = "open"

\* C37: CloseCall returns an error without having written anything exactly
\* when the call does not exist, is not the user's, is closed, or the size is
\* <= 0 or above the remaining size; UpdateStopLoss returns an error exactly
\* when the call does not exist, is not the user's or is closed; a rejected
\* operation leaves every call and every deposit as they were
C37_RejectionsChangeNothing ==
    [][/\ pc[0] = "cc_read" =>
            LET bad == \/ ~Closable(cc[0].id, cc[0].user)
                       \/ cc[0].size <= 0
                       \/ cc[0].size > calls[cc[0].id].size
            IN /\ bad <=> cc'[0].ret \in {"notfound", "size"}
               /\ bad => (pc'[0] = "ccall_after" /\ calls' = calls /\ deposits' = deposits)
               /\ ~bad => pc'[0] \in {"cc_getdep", "cc_update"}
       /\ (stCall'.fn = "UpdateStopLoss" /\ pc'[0] = "idle" /\ cmds' # cmds) =>
            /\ stCall'.err <=> ~Closable(stCall'.id, stCall'.user)
            /\ stCall'.err => (calls' = calls /\ deposits' = deposits)
            /\ ~stCall'.err =>
                   calls' = [calls EXCEPT ![stCall'.id].sl = stCall'.arg]
    ]_vars

\* UpdateStopLoss has rejected a user who does not own the open call, and
\* CloseCall has then rejected too large a size of a call the user owns
C37_Witness ==
    /\ stCall.fn = "UpdateStopLoss" /\ stCall.err
    /\ stCall.id \in DOMAIN calls
    /\ calls[stCall.id].status = "open" /\ calls[stCall.id].user # stCall.user
    /\ calls[stCall.id].sl = 995
    /\ pc[0] = "ccall_after" /\ cc[0].ret = "size"
    /\ cc[0].size > calls[cc[0].id].size

\* C38: a DeleteByID(chat, id) whose statement succeeds returns true exactly
\* when an alert with that id belongs to chat, and then that alert and no
\* other is gone; when it returns false every alert is as before
C38_OnlyOwnerDeletes ==
    [][(stCall'.fn = "DeleteByID" /\ cmds' # cmds) =>
           LET id == stCall'.id
               owned == id \in DOMAIN alerts /\ alerts[id].chat = stCall'.user
           IN /\ ~stCall'.err => (stCall'.ok <=> owned)
              /\ stCall'.ok =>
                     /\ DOMAIN alerts' = DOMAIN alerts \ {id}
                     /\ \A i \in DOMAIN alerts' : alerts'[i] = alerts[i]
              /\ ~stCall'.ok => alerts' = alerts
    ]_vars

\* DeleteByID has returned false to a chat that named the alert of another
\* chat, and the alert is still there
C38_Witness ==
    /\ stCall.fn = "DeleteByID" /\ ~stCall.ok /\ ~stCall.err
    /\ stCall.id \in DOMAIN alerts
    /\ alerts[stCall.id].chat # stCall.user

\* C39: every reminder Scheduler.Add accepted is sooner or later delivered,
\* once, and gone from the table and from the map of timers, and no reminder
\* is ever delivered twice
C39_DeliveredOnce ==
    /\ [](\A id \in DOMAIN delivered : delivered[id] <= 1)
    /\ \A id \in 1..MaxReminders :
           (id \in DOMAIN delivered)
               ~> (/\ id \in DOMAIN delivered
                   /\ delivered[id] = 1
                   /\ id \notin DOMAIN reminders
                   /\ id \notin DOMAIN tasks)

====
